---- MODULE Spec2Model ----
(***************************************************************************)
(* State-machine model of the OTA update system.                           *)
(*                                                                         *)
(* Server half (packages/server): the releases / rollouts tables, the KV   *)
(* cache of the latest release, and the request handlers check-update,     *)
(* publish, rollback, rollout change and delete.  Every handler is cut at  *)
(* its awaits: one action is one database or KV operation together with    *)
(* the synchronous code that follows it up to the next await.              *)
(*                                                                         *)
(* Client half (packages/react-native): the useOTAUpdate hook, the         *)
(* UpdateStorage class and the native module's pending-bundle pointer.     *)
(***************************************************************************)
EXTENDS Integers, Sequences, FiniteSets, Bags, TLC

\* ------------------------------------------------------------------ bounds

\* Number of release ids the server can hand out.
MaxReleases == 2
\* Number of server requests that can be in flight at once.
MaxReqs == 2
\* Number of server requests received in one run.
MaxStarted == 3
\* Number of releases the server may offer to the device.
MaxClientReleases == 2
\* Number of agent operations that can be in flight at once.
MaxTasks == 2
\* Number of operations the app invokes in one run.
MaxOps == 2

\* ------------------------------------------------------------ value domains

\* A release id of 0 stands for null / "no row".
NoRel == 0
RelIds == 1..MaxReleases

\* A version string is modelled as the list of its dot-separated components;
\* the empty list stands for null.
NoVersion == << >>
\* versions a publish may carry
Versions == { <<1, 0, 1>>, <<1, 1>> }
\* native app versions a device may report
AppVersions == { <<1, 9, 9>>, <<2, 0, 0>> }
\* min_app_version values a publish may carry (null or "2.0.0")
MinAppVersions == { NoVersion, <<2, 0, 0>> }
\* metadata.minAppVersion and metadata.maxAppVersion of a publish
Unbounded == [min |-> NoVersion, max |-> NoVersion]
AppRanges ==
  { [min |-> NoVersion, max |-> <<2, 0, 0>>],
    [min |-> <<2, 0, 0>>, max |-> NoVersion],
    [min |-> <<2, 0, 0>>, max |-> <<2, 0, 0>>] }
\* OTA versions a device may report as currentVersion (null or a version)
CurrentVersions == { NoVersion, <<1, 0, 1>> }

\* platform of a check-update request
Platforms == { "ios", "android" }
\* platform part of a cache key: invalidation also deletes the key of 'both'
CacheKeys == Platforms \cup { "both" }
\* percentages a rollout change may set
Percentages == { 0, 50, 100 }
\* device ids, as lists of UTF-16 code units: "a" and "z"
DeviceIds == { <<97>>, <<122>> }
\* deviceIdRef.current before the first call of getDeviceIdCached
NoDevice == << >>

\* release ids the server may offer to the device
ClientRels == 1..MaxClientReleases

\* The native modules of the repository: the Android module that commits the
\* pointer and reads it back, the Android module that writes it with apply(),
\* and the iOS module.
NativeModules == { "android", "android-apply", "ios" }

\* The builds of the app: which of expo-file-system, expo-crypto and the
\* native module NativeModules.OTAUpdate the app was built with, and which
\* native module that is.  A build with neither file system has no storage
\* adapter and never starts.
Envs ==
  { e \in [expoFileSystem : BOOLEAN, expoCrypto : BOOLEAN, native : BOOLEAN,
           module : NativeModules \cup { "none" }] :
      /\ e.expoFileSystem \/ e.native
      /\ e.native <=> e.module # "none" }
\* the build the server-only specifications leave untouched
BareEnv == [expoFileSystem |-> FALSE, expoCrypto |-> FALSE, native |-> TRUE,
            module |-> "android"]

\* what the hook's error state says
NoError == "null"
Errors == { "check-update failed", "download failed", "Bundle hash mismatch",
            "write failed", "Invalid bundle signature" }

Statuses == { "idle", "checking", "available", "up-to-date", "downloading",
              "verifying", "ready", "applying", "error" }

\* A path is its scheme prefix and the release id of the bundle it names.
NoPath == [scheme |-> "", rel |-> NoRel]
\* current.json
NoMetadata == [state |-> "absent", releaseId |-> NoRel, bundlePath |-> NoPath]

\* ---------------------------------------------------------------- variables

VARIABLES
  releases,   \* rows of table releases: [id, version, min_app_version, max_app_version, created_at]
  rollouts,   \* rows of table rollouts: [release_id, percentage, is_active]
  cache,      \* KV namespace CACHE: platform -> cached latest release
  nextRel,    \* number of release ids generated so far
  clock,      \* unixepoch() at the last INSERT INTO releases, in seconds
  req,        \* the bag of server requests in flight, each with its position and locals
  started,    \* number of server requests received so far
  \* --- the device: what survives a process kill
  env,        \* how the app is built: which storage adapter and whether the native module exists
  files,      \* the bundle files of the update directory: release id -> absent / partial / full
  metadata,   \* the file current.json: absent, unreadable, or a StoredUpdate
  pointer,    \* the native pending-bundle pointer ("BundlePath"), or NoPath
  \* --- the running process
  mounted,    \* the provider has mounted in this process
  status,     \* useOTAUpdate: status
  error,      \* useOTAUpdate: error (what the Error says, NoError for null)
  updateInfo, \* useOTAUpdate: updateInfo (the release id, NoRel for null)
  releaseRef, \* useOTAUpdate: releaseRef.current (the release id, NoRel for null)
  deviceIdRef, \* useOTAUpdate: deviceIdRef.current (the device id, NoDevice for null)
  tasks,      \* the bag of asynchronous operations in flight, each suspended at an await
  rebirth,    \* the native module has scheduled a restart of the process
  ops,        \* number of operations the app has invoked so far
  sentId,     \* the device id of the last check-update request this device sent
  isDismissed,      \* useOTAUpdate: isDismissed
  handledMandatory, \* OTAProvider: handledMandatory
  alert             \* the "Update Required" alert of OTAProvider is on screen

serverVars == << releases, rollouts, cache, nextRel, clock, req, started >>
hookVars == << mounted, status, error, updateInfo, releaseRef, deviceIdRef >>
clientVars == << env, files, metadata, pointer, mounted, status, error, updateInfo,
                 releaseRef, deviceIdRef, tasks, rebirth, ops, sentId,
                 isDismissed, handledMandatory, alert >>
uiVars == << isDismissed, handledMandatory, alert >>
vars == << serverVars, clientVars >>

\* -------------------------------------------------------- rollout.ts helpers

Max(a, b) == IF a >= b THEN a ELSE b

\* A 32-bit integer is kept as two 16-bit halves [hi, lo] (its two's-complement
\* bit pattern), so that no intermediate value leaves the checker's integers.
Half == 65536

\* one round of the loop: hash = ((hash << 5) - hash) + char; hash = hash & hash
\* ((h << 5) - h + c is h * 31 + c modulo 2^32)
HashRound(h, char) ==
  LET lo == h.lo * 31 + char
      hi == h.hi * 31 + (lo \div Half)
  IN  [hi |-> hi % Half, lo |-> lo % Half]

RECURSIVE HashFrom(_, _, _)
HashFrom(str, i, hash) ==
  IF i > Len(str) THEN hash
  ELSE HashFrom(str, i + 1, HashRound(hash, str[i]))

\* Math.abs of a signed 32-bit pattern (Math.abs(-2^31) is 2^31)
Abs32(h) ==
  IF h.hi < Half \div 2 THEN h
  ELSE [hi |-> ((Half - 1 - h.hi) + (IF h.lo = 0 THEN 1 ELSE 0)) % Half,
        lo |-> (Half - h.lo) % Half]

simpleHash(str) == Abs32(HashFrom(str, 1, [hi |-> 0, lo |-> 0]))

\* hash % 100 for a non-negative [hi, lo]
Mod100(h) == ((h.hi % 100) * (Half % 100) + h.lo) % 100

\* a shouldReceiveUpdate whose bucket test lets the boundary bucket in
shouldReceiveUpdateInclusive(deviceId, percentage) ==
  IF percentage >= 100 THEN TRUE
  ELSE IF percentage <= 0 THEN FALSE
  ELSE Mod100(simpleHash(deviceId)) <= percentage

\* a shouldReceiveUpdate that treats a percentage above 100 as no rollout
shouldReceiveUpdateInRange(deviceId, percentage) ==
  IF percentage > 100 THEN FALSE
  ELSE IF percentage = 100 THEN TRUE
  ELSE IF percentage <= 0 THEN FALSE
  ELSE Mod100(simpleHash(deviceId)) < percentage

shouldReceiveUpdate(deviceId, percentage) ==
  IF percentage >= 100 THEN TRUE
  ELSE IF percentage <= 0 THEN FALSE
  ELSE Mod100(simpleHash(deviceId)) < percentage

\* Number(component) of a component that is not a numeral ("0-beta", "x"): NaN
NotANumber == -1

\* parts[i] || 0 : a missing component and a NaN count as 0
PartOrZero(parts, i) ==
  IF i <= Len(parts) /\ parts[i] # NotANumber THEN parts[i] ELSE 0

RECURSIVE CompareFrom(_, _, _)
CompareFrom(parts1, parts2, i) ==
  IF i > Max(Len(parts1), Len(parts2)) THEN 0
  ELSE IF PartOrZero(parts1, i) > PartOrZero(parts2, i) THEN 1
  ELSE IF PartOrZero(parts1, i) < PartOrZero(parts2, i) THEN -1
  ELSE CompareFrom(parts1, parts2, i + 1)

\* a comparison that stops at the end of the shorter version
RECURSIVE CompareCommonFrom(_, _, _)
CompareCommonFrom(parts1, parts2, i) ==
  IF i > Len(parts1) \/ i > Len(parts2) THEN 0
  ELSE IF PartOrZero(parts1, i) > PartOrZero(parts2, i) THEN 1
  ELSE IF PartOrZero(parts1, i) < PartOrZero(parts2, i) THEN -1
  ELSE CompareCommonFrom(parts1, parts2, i + 1)

compareVersionsOfCommonParts(v1, v2) == CompareCommonFrom(v1, v2, 1)

compareVersions(v1, v2) == CompareFrom(v1, v2, 1)

\* isAppVersionCompatible without its second test (rollout.ts 50-52)
isAppVersionAtLeastMin(appVersion, minAppVersion, maxAppVersion) ==
  ~(minAppVersion # NoVersion /\ compareVersions(appVersion, minAppVersion) < 0)

isAppVersionCompatible(appVersion, minAppVersion, maxAppVersion) ==
  IF minAppVersion # NoVersion /\ compareVersions(appVersion, minAppVersion) < 0 THEN FALSE
  ELSE IF maxAppVersion # NoVersion /\ compareVersions(appVersion, maxAppVersion) > 0 THEN FALSE
  ELSE TRUE

\* --------------------------------------------------------- database queries

\* LIMIT of the query in getLatestActiveRelease
LatestLimit == 10

NoCached == [releaseId |-> NoRel, version |-> NoVersion,
             minAppVersion |-> NoVersion, maxAppVersion |-> NoVersion]

\* a mutation request that has answered with HTTP status `code` (its locals are dead)
Done(kind, code) == [kind |-> kind, pc |-> "done", code |-> code]

\* SELECT ... FROM rollouts WHERE release_id = ? : the row set (release_id is UNIQUE)
RolloutsOf(releaseId) == { ro \in rollouts : ro.release_id = releaseId }

\* releases r JOIN rollouts ro ON r.id = ro.release_id WHERE ro.is_active = 1
ActiveReleases ==
  { r \in releases : \E ro \in RolloutsOf(r.id) : ro.is_active }

PercentageOf(releaseId) == (CHOOSE ro \in RolloutsOf(releaseId) : TRUE).percentage

\* the two tests of the loop of getLatestActiveRelease
Qualifies(r, deviceId, appVersion) ==
  /\ isAppVersionCompatible(appVersion, r.min_app_version, r.max_app_version)
  /\ shouldReceiveUpdate(deviceId, PercentageOf(r.id))

\* getLatestActiveRelease: the first row, in ORDER BY r.created_at DESC LIMIT 10,
\* that is app-version compatible and includes the device; NoRel when the rows
\* fetched hold none. created_at counts whole seconds, and the query does not
\* say how rows of one second are ordered: every order is a possible answer.
getLatestActiveRelease(deviceId, appVersion) ==
  LET ok == { r \in ActiveReleases : Qualifies(r, deviceId, appVersion) }
      Newer(r) == { n \in ActiveReleases : n.created_at > r.created_at }
      \* the rows that can all be placed before qualifying row r
      Ahead(r) == { n \in ActiveReleases :
                      \/ n.created_at > r.created_at
                      \/ n.created_at = r.created_at /\ n \notin ok }
  IN  { r.id : r \in { x \in ok : /\ Cardinality(Newer(x)) < LatestLimit
                                  /\ Newer(x) \cap ok = {} } }
      \cup (IF \A r \in ok : Cardinality(Ahead(r)) >= LatestLimit THEN { NoRel } ELSE {})

ReleaseRow(releaseId) == CHOOSE r \in releases : r.id = releaseId

\* the projection of a release row stored in the cache (updates.ts 73-83)
CachedOf(releaseId) ==
  LET r == ReleaseRow(releaseId)
  IN  [releaseId |-> r.id, version |-> r.version,
       minAppVersion |-> r.min_app_version, maxAppVersion |-> r.max_app_version]

\* UPDATE rollouts SET is_active = 0 WHERE release_id IN (releases of the
\* channel with id != exclude) AND is_active = 1
deactivatePreviousRollouts(excludeReleaseId) ==
  { IF ro.is_active /\ ro.release_id # excludeReleaseId
         /\ (\E r \in releases : r.id = ro.release_id)
    THEN [ro EXCEPT !.is_active = FALSE] ELSE ro : ro \in rollouts }

\* invalidateLatestReleaseCache: delete the keys of 'ios', 'android' and 'both'
invalidateLatestReleaseCache == [p \in CacheKeys |-> NoCached]

\* -------------------------------------------------------------------- Init

ServerInit ==
  /\ releases = {}
  /\ rollouts = {}
  /\ cache = [p \in CacheKeys |-> NoCached]
  /\ nextRel = 0
  /\ clock = 0
  /\ req = EmptyBag
  /\ started = 0

\* a fresh install: nothing staged, no process running
ClientInit ==
  /\ env \in Envs
  /\ files = [r \in ClientRels |-> "absent"]
  /\ metadata = NoMetadata
  /\ pointer = NoPath
  /\ mounted = FALSE
  /\ status = "idle"
  /\ error = NoError
  /\ updateInfo = NoRel
  /\ releaseRef = NoRel
  /\ deviceIdRef = NoDevice
  /\ tasks = EmptyBag
  /\ rebirth = FALSE
  /\ ops = 0
  /\ sentId = NoDevice
  /\ isDismissed = FALSE
  /\ handledMandatory = FALSE
  /\ alert = FALSE

Init == ServerInit /\ ClientInit
\* the server on its own: the device never starts
ServerOnlyInit == Init /\ env = BareEnv

\* the requests in flight form a bag: two requests may be at the same position
\* with the same locals
InFlight == BagToSet(req)
ReqAdd(n) == req (+) SetToBag({n})
ReqRemove(q) == req (-) SetToBag({q})
ReqReplace(q, n) == (req (-) SetToBag({q})) (+) SetToBag({n})

\* a request may arrive while fewer than MaxReqs are in flight
CanStart(budget) ==
  /\ BagCardinality(req) < MaxReqs
  /\ started < budget
  /\ started' = started + 1

\* the response has been sent: the slot is free again
Return(q) ==
  /\ q.pc = "done"
  /\ req' = ReqRemove(q)
  /\ UNCHANGED << releases, rollouts, cache, nextRel, clock, started, clientVars >>

\* ------------------------------------------------ POST /check-update (updates.ts)

\* lines 88-92, run synchronously once cachedRelease is known
AfterCached(r) ==
  IF ~isAppVersionCompatible(r.appVersion, r.cachedRelease.minAppVersion,
                             r.cachedRelease.maxAppVersion)
  THEN [r EXCEPT !.pc = "done", !.resp = NoRel]
  ELSE [r EXCEPT !.pc = "rollout"]

\* a request arrives and runs to its first await that touches the store or the
\* cache; line 61: getCachedLatestRelease
StartCheck(platforms, deviceIds, appVersions, currentVersions, budget) ==
  /\ CanStart(budget)
  /\ \E p \in platforms, d \in deviceIds, a \in appVersions, c \in currentVersions :
       LET r == [kind |-> "check", pc |-> "dbLatest", platform |-> p, deviceId |-> d,
                 appVersion |-> a, currentVersion |-> c,
                 cachedRelease |-> NoCached, fromCache |-> FALSE, resp |-> NoRel]
       IN  req' = ReqAdd(IF cache[p] = NoCached THEN r
                     ELSE AfterCached([r EXCEPT !.cachedRelease = cache[p], !.fromCache = TRUE]))
  /\ UNCHANGED << releases, rollouts, cache, nextRel, clock, clientVars >>

\* lines 65-83: getLatestActiveRelease on a cache miss
CheckDbLatest(q) ==
  /\ q.kind = "check" /\ q.pc = "dbLatest"
  /\ \E rel \in getLatestActiveRelease(q.deviceId, q.appVersion) :
         req' = ReqReplace(q, IF rel = NoRel THEN [q EXCEPT !.pc = "done", !.resp = NoRel]
                   ELSE [q EXCEPT !.pc = "cachePut", !.cachedRelease = CachedOf(rel)])
  /\ UNCHANGED << releases, rollouts, cache, nextRel, clock, started, clientVars >>

\* line 85: setCachedLatestRelease, then lines 88-92
CheckCachePut(q) ==
  /\ q.kind = "check" /\ q.pc = "cachePut"
  /\ cache' = [cache EXCEPT ![q.platform] = q.cachedRelease]
  /\ req' = ReqReplace(q, AfterCached(q))
  /\ UNCHANGED << releases, rollouts, nextRel, clock, started, clientVars >>

\* the query of lines 96-98 without "AND is_active = 1"
RolloutIncludesAnyState(releaseId, deviceId) ==
  \E ro \in RolloutsOf(releaseId) : shouldReceiveUpdate(deviceId, ro.percentage)

\* lines 96-103: SELECT percentage FROM rollouts WHERE release_id = ? AND is_active = 1
RolloutIncludes(releaseId, deviceId) ==
  \E ro \in RolloutsOf(releaseId) :
      ro.is_active /\ shouldReceiveUpdate(deviceId, ro.percentage)

\* lines 105-109 with > in place of >=
AlreadyLatestStrictly(currentVersion, version) ==
  currentVersion # NoVersion /\ compareVersions(currentVersion, version) > 0

\* lines 105-109
AlreadyLatest(currentVersion, version) ==
  currentVersion # NoVersion /\ compareVersions(currentVersion, version) >= 0

\* lines 96-129: the live rollout re-check, the version check and the response
CheckRollout(q) ==
  /\ q.kind = "check" /\ q.pc = "rollout"
  /\ req' = ReqReplace(q, IF ~RolloutIncludes(q.cachedRelease.releaseId, q.deviceId)
       THEN [q EXCEPT !.pc = "done", !.resp = NoRel]
       ELSE IF AlreadyLatest(q.currentVersion, q.cachedRelease.version)
       THEN [q EXCEPT !.pc = "done", !.resp = NoRel]
       ELSE [q EXCEPT !.pc = "done", !.resp = q.cachedRelease.releaseId])
  /\ UNCHANGED << releases, rollouts, cache, nextRel, clock, started, clientVars >>

\* the KV entry reaches its expirationTtl (CACHE_TTL seconds after the put)
CacheExpire(p) ==
  /\ cache[p] # NoCached
  /\ cache' = [cache EXCEPT ![p] = NoCached]
  /\ UNCHANGED << releases, rollouts, nextRel, clock, req, started, clientVars >>

\* ------------------------------------------- POST /releases (releases.ts 59-185)

\* publishes that will still take a release id
PendingInserts ==
  BagCardinality([q \in { x \in InFlight : x.kind = "publish" /\ x.pc = "insert" } |-> req[q]])

\* lines 106-113: 409 when the version exists for this channel
StartPublish(versions, ranges, budget) ==
  /\ CanStart(budget)
  /\ nextRel + PendingInserts < MaxReleases
  /\ \E v \in versions, range \in ranges :
       req' = ReqAdd(IF \E r \in releases : r.version = v
                 THEN Done("publish", 409)
                 ELSE [kind |-> "publish", pc |-> "insert", version |-> v,
                       minAppVersion |-> range.min, maxAppVersion |-> range.max,
                       releaseId |-> NoRel, code |-> 0])
  /\ UNCHANGED << releases, rollouts, cache, nextRel, clock, clientVars >>

\* lines 123, 143-165: INSERT INTO releases
PublishInsert(q, gaps) ==
  /\ q.kind = "publish" /\ q.pc = "insert"
  /\ nextRel' = nextRel + 1
  /\ \E gap \in gaps : clock' = IF nextRel = 0 THEN 1 ELSE clock + gap
  /\ releases' = releases \cup
       { [id |-> nextRel + 1, version |-> q.version,
          min_app_version |-> q.minAppVersion,
          max_app_version |-> q.maxAppVersion, created_at |-> clock'] }
  /\ req' = ReqReplace(q, [q EXCEPT !.pc = "createRollout", !.releaseId = nextRel + 1])
  /\ UNCHANGED << rollouts, cache, started, clientVars >>

\* createRollout: INSERT INTO rollouts (..., percentage, is_active) VALUES (..., ?, 1)
createRollout(releaseId, percentage) ==
  rollouts \cup { [release_id |-> releaseId, percentage |-> percentage, is_active |-> TRUE] }

\* lines 167-169
PublishCreateRollout(q) ==
  /\ q.kind = "publish" /\ q.pc = "createRollout"
  /\ rollouts' = createRollout(q.releaseId, 100)
  /\ req' = ReqReplace(q, [q EXCEPT !.pc = "deactivate"])
  /\ UNCHANGED << releases, cache, nextRel, clock, started, clientVars >>

\* lines 171-172
PublishDeactivate(q) ==
  /\ q.kind = "publish" /\ q.pc = "deactivate"
  /\ rollouts' = deactivatePreviousRollouts(q.releaseId)
  /\ req' = ReqReplace(q, [q EXCEPT !.pc = "invalidate"])
  /\ UNCHANGED << releases, cache, nextRel, clock, started, clientVars >>

\* lines 174-175
PublishInvalidate(q) ==
  /\ q.kind = "publish" /\ q.pc = "invalidate"
  /\ cache' = invalidateLatestReleaseCache
  /\ req' = ReqReplace(q, [q EXCEPT !.pc = "select"])
  /\ UNCHANGED << releases, rollouts, nextRel, clock, started, clientVars >>

\* lines 177-184: the final SELECT and the 201 response
PublishRespond(q) ==
  /\ q.kind = "publish" /\ q.pc = "select"
  /\ req' = ReqReplace(q, Done(q.kind, 201))
  /\ UNCHANGED << releases, rollouts, cache, nextRel, clock, started, clientVars >>

\* --------------------------------- POST /:releaseId/rollback (releases.ts 263-298)

\* lines 272-281: 404 when the release does not exist
StartRollbackWithin(budget) ==
  /\ CanStart(budget)
  /\ \E t \in RelIds :
       req' = ReqAdd(IF \E r \in releases : r.id = t
                 THEN [kind |-> "rollback", pc |-> "deactivate", releaseId |-> t, code |-> 0]
                 ELSE Done("rollback", 404))
  /\ UNCHANGED << releases, rollouts, cache, nextRel, clock, clientVars >>

StartRollback == StartRollbackWithin(MaxStarted)

\* rollbackToRelease, first statement: deactivate the channel's active rollouts
rollbackDeactivate ==
  { IF ro.is_active /\ (\E r \in releases : r.id = ro.release_id)
    THEN [ro EXCEPT !.is_active = FALSE] ELSE ro : ro \in rollouts }

\* rollbackToRelease, second statement: activate the target's rollout at 100%
rollbackActivate(targetReleaseId) ==
  { IF ro.release_id = targetReleaseId
    THEN [ro EXCEPT !.is_active = TRUE, !.percentage = 100] ELSE ro : ro \in rollouts }

RollbackDeactivate(q) ==
  /\ q.kind = "rollback" /\ q.pc = "deactivate"
  /\ rollouts' = rollbackDeactivate
  /\ req' = ReqReplace(q, [q EXCEPT !.pc = "activate"])
  /\ UNCHANGED << releases, cache, nextRel, clock, started, clientVars >>

RollbackActivate(q) ==
  /\ q.kind = "rollback" /\ q.pc = "activate"
  /\ rollouts' = rollbackActivate(q.releaseId)
  /\ req' = ReqReplace(q, [q EXCEPT !.pc = "invalidate"])
  /\ UNCHANGED << releases, cache, nextRel, clock, started, clientVars >>

\* lines 285-297: invalidate the cache and answer
RollbackInvalidate(q) ==
  /\ q.kind = "rollback" /\ q.pc = "invalidate"
  /\ cache' = invalidateLatestReleaseCache
  /\ req' = ReqReplace(q, Done(q.kind, 200))
  /\ UNCHANGED << releases, rollouts, nextRel, clock, started, clientVars >>

\* ---------------------------------- PATCH /:releaseId/rollout (releases.ts 220-260)

\* lines 229-244: 404 when the release does not exist
StartRolloutChange(percentages, budget) ==
  /\ CanStart(budget)
  /\ \E t \in RelIds, p \in percentages :
       req' = ReqAdd(IF \E r \in releases : r.id = t
                 THEN [kind |-> "rollout", pc |-> "update", releaseId |-> t,
                       percentage |-> p, code |-> 0]
                 ELSE Done("rollout", 404))
  /\ UNCHANGED << releases, rollouts, cache, nextRel, clock, clientVars >>

\* UPDATE rollouts SET percentage = ? WHERE release_id = ?
updateRolloutPercentage(releaseId, percentage) ==
  { IF ro.release_id = releaseId
    THEN [ro EXCEPT !.percentage = percentage] ELSE ro : ro \in rollouts }

RolloutUpdate(q) ==
  /\ q.kind = "rollout" /\ q.pc = "update"
  /\ rollouts' = updateRolloutPercentage(q.releaseId, q.percentage)
  /\ req' = ReqReplace(q, [q EXCEPT !.pc = "invalidate"])
  /\ UNCHANGED << releases, cache, nextRel, clock, started, clientVars >>

RolloutInvalidate(q) ==
  /\ q.kind = "rollout" /\ q.pc = "invalidate"
  /\ cache' = invalidateLatestReleaseCache
  /\ req' = ReqReplace(q, [q EXCEPT !.pc = "status"])
  /\ UNCHANGED << releases, rollouts, nextRel, clock, started, clientVars >>

\* line 257-259: getRolloutStatus and the response
RolloutRespond(q) ==
  /\ q.kind = "rollout" /\ q.pc = "status"
  /\ req' = ReqReplace(q, Done(q.kind, 200))
  /\ UNCHANGED << releases, rollouts, cache, nextRel, clock, started, clientVars >>

\* ------------------------------------------ the CLI command `release --rollout p`

\* options.rollout of the command
RolloutOption == 50

\* createRelease: the command uploads the release (POST /releases)
CliCreateRelease == StartPublish(Versions, {Unbounded}, MaxStarted)

\* the 201 of the publish that created release r has been sent
Published(r) ==
  ~\E q \in InFlight : q.kind = "publish" /\ q.pc # "done" /\ q.releaseId = r.id

\* updateRollout(app.id, release.id, parseInt(options.rollout)): with the
\* response of createRelease in hand, the command lowers the rollout
\* (PATCH /:releaseId/rollout)
CliUpdateRollout ==
  /\ CanStart(MaxStarted)
  /\ \E r \in releases :
       /\ Published(r)
       /\ req' = ReqAdd([kind |-> "rollout", pc |-> "update", releaseId |-> r.id,
                         percentage |-> RolloutOption, code |-> 0])
  /\ UNCHANGED << releases, rollouts, cache, nextRel, clock, clientVars >>

\* ------------------------------------- DELETE /:releaseId (releases.ts 301-354)

\* lines 310-319: 404 when the release does not exist
StartDeleteWithin(budget) ==
  /\ CanStart(budget)
  /\ \E t \in RelIds :
       req' = ReqAdd(IF \E r \in releases : r.id = t
                 THEN [kind |-> "delete", pc |-> "count", releaseId |-> t, code |-> 0]
                 ELSE Done("delete", 404))
  /\ UNCHANGED << releases, rollouts, cache, nextRel, clock, clientVars >>

StartDelete == StartDeleteWithin(MaxStarted)

\* lines 321-328: COUNT(*) of the channel's active rollouts
DeleteCount(q) ==
  /\ q.kind = "delete" /\ q.pc = "count"
  /\ req' = ReqReplace(q, IF Cardinality(ActiveReleases) = 1
       THEN [q EXCEPT !.pc = "status"]
       ELSE [q EXCEPT !.pc = "delete"])
  /\ UNCHANGED << releases, rollouts, cache, nextRel, clock, started, clientVars >>

\* lines 329-335: 400 when the release to delete holds the active rollout
DeleteStatus(q) ==
  /\ q.kind = "delete" /\ q.pc = "status"
  /\ req' = ReqReplace(q, IF \E ro \in RolloutsOf(q.releaseId) : ro.is_active
       THEN Done(q.kind, 400)
       ELSE [q EXCEPT !.pc = "delete"])
  /\ UNCHANGED << releases, rollouts, cache, nextRel, clock, started, clientVars >>

\* line 339: DELETE FROM releases WHERE id = ? (ON DELETE CASCADE removes the rollout)
DeleteRow(q) ==
  /\ q.kind = "delete" /\ q.pc = "delete"
  /\ releases' = { r \in releases : r.id # q.releaseId }
  /\ rollouts' = { ro \in rollouts : ro.release_id # q.releaseId }
  /\ req' = ReqReplace(q, [q EXCEPT !.pc = "invalidate"])
  /\ UNCHANGED << cache, nextRel, clock, started, clientVars >>

\* lines 341-353: delete the artifact, invalidate the cache and answer
DeleteInvalidate(q) ==
  /\ q.kind = "delete" /\ q.pc = "invalidate"
  /\ cache' = invalidateLatestReleaseCache
  /\ req' = ReqReplace(q, Done(q.kind, 200))
  /\ UNCHANGED << releases, rollouts, nextRel, clock, started, clientVars >>

\* ------------------------------------------- storage.ts / verification.ts

\* getStorageAdapter: expo-file-system wins over the native module
getStorageAdapter == IF env.expoFileSystem THEN "expo" ELSE "native"

\* the scheme of getDocumentDirectory(): Expo hands out file:// URIs
getDocumentDirectory == IF getStorageAdapter = "expo" THEN "file://" ELSE ""

normalizePath(path) == IF path.scheme = "file://" THEN [path EXCEPT !.scheme = ""] ELSE path

getRawBundlePath(releaseId) == [scheme |-> getDocumentDirectory, rel |-> releaseId]

\* getMetadata: an unreadable current.json reads as null
getMetadata == IF metadata.state = "ok" THEN metadata ELSE NoMetadata

\* the answers validateBundle can give for the file as it is on disk
validateBundle(releaseId) ==
  CASE files[releaseId] = "absent"  -> { FALSE }
    [] files[releaseId] = "partial" -> BOOLEAN
    [] files[releaseId] = "full"    -> { TRUE }

\* what a bundle's bytes are: the published bytes or something else
Contents == { "published", "corrupted" }

\* a body that is an HTML page, beginning with <!DOCTYPE html>
HtmlPage == "html"

\* the Content-Type header of the response: absent, a script, an HTML page
NoContentType == "none"
ContentTypes == { NoContentType, "application/javascript", "text/html" }

\* what the bundle URL can answer with
Responses == [contentType : ContentTypes, body : Contents \cup { HtmlPage }]
BundleResponses == [contentType : { NoContentType }, body : Contents]

\* the two OTAApiClient sources of the repository
ApiClients == { "plain", "validating" }

isValidJavaScriptBundle(data) == data # HtmlPage

\* downloadBundle: TRUE when the response is returned as bundle data, FALSE
\* when it throws. One client returns every body of a 2xx response, the
\* other rejects an HTML content type and an HTML body.
downloadBundle(client, response) ==
  IF client = "plain" THEN TRUE
  ELSE /\ response.contentType # "text/html"
       /\ isValidJavaScriptBundle(response.body)

\* calculateHash: expo-crypto digests the hex text of the bytes, the native
\* module and WebCrypto digest the bytes
calculateHash(data) ==
  IF env.expoCrypto THEN << "sha256", "hex-text", data >>
  ELSE IF env.native THEN << "sha256", "bytes", data >>
  ELSE << "sha256", "bytes", data >>

\* the bundleHash of the release: the server digests the published bytes
bundleHash == << "sha256", "bytes", "published" >>

verifyBundleHash(data, expectedHash) == calculateHash(data) = expectedHash

\* release.bundleSignature: null, the signature of the published bytes under
\* the app's key, or anything else
Signatures == { "none", "good", "bad" }

\* the signature verifies over the bytes under the public key
SignatureVerifies(data, signature) == signature = "good" /\ data = "published"

\* verifySignature: what the call can return. Without the native module the
\* check is skipped; both Android modules resolve true without looking; the
\* iOS module checks with CryptoKit and resolves true below iOS 13.
verifySignature(data, signature) ==
  IF ~env.native THEN { TRUE }
  ELSE IF env.module = "ios" THEN { SignatureVerifies(data, signature), TRUE }
  ELSE { TRUE }

\* a verifyBundle that evaluates the signature whatever the digest is
verifyBundleSignatureFirst(data, expectedHash, signature, publicKey) ==
  IF signature # "none" /\ publicKey
  THEN { IF signatureValid
         THEN (IF verifyBundleHash(data, expectedHash) THEN "valid" ELSE "Bundle hash mismatch")
         ELSE "Invalid bundle signature" :
           signatureValid \in verifySignature(data, signature) }
  ELSE { IF verifyBundleHash(data, expectedHash) THEN "valid" ELSE "Bundle hash mismatch" }

\* verifyBundle: "valid", or the error of the result
verifyBundle(data, expectedHash, signature, publicKey) ==
  IF ~verifyBundleHash(data, expectedHash) THEN { "Bundle hash mismatch" }
  ELSE IF signature # "none" /\ publicKey
  THEN { IF signatureValid THEN "valid" ELSE "Invalid bundle signature" :
           signatureValid \in verifySignature(data, signature) }
  ELSE { "valid" }

\* the file checks of the Android applyBundle (exists, canRead, length >= 100);
\* the iOS applyBundle has none
NativeAccepts(path) ==
  CASE env.module = "ios"             -> { TRUE }
    [] path.rel = NoRel               -> { FALSE }
    [] files[path.rel] = "absent"     -> { FALSE }
    [] files[path.rel] = "partial"    -> BOOLEAN
    [] files[path.rel] = "full"       -> { TRUE }

\* The outcomes of the native applyBundle(bundlePath, restart): whether the
\* promise resolves, the pointer on disk afterwards, and what becomes of the
\* process.  "written" is whether the pointer reached the disk: commit()
\* reports it, apply() and synchronize() do not.
applyBundle(bundlePath, restart) ==
  { o \in [resolved : BOOLEAN, pointer : { bundlePath, pointer },
           restart : { "none", "scheduled", "killed" }] :
      \E accepted \in NativeAccepts(bundlePath), written \in BOOLEAN :
        /\ o.pointer = IF accepted /\ written THEN bundlePath ELSE pointer
        /\ o.resolved = CASE env.module = "android"       -> accepted /\ written
                           [] env.module = "android-apply" -> accepted
                           [] env.module = "ios"           -> TRUE
        /\ o.restart = CASE ~restart \/ ~o.resolved        -> "none"
                          [] env.module = "android-apply" -> "killed"
                          [] OTHER                        -> "scheduled" }

\* registerBundleWithNative: what it returns, with the pointer and the process
\* it leaves; without the native module it returns false
registerBundleWithNative(bundlePath, restart) ==
  IF env.native
    THEN { [registered |-> o.resolved, pointer |-> o.pointer, restart |-> o.restart] :
             o \in applyBundle(normalizePath(bundlePath), restart) }
    ELSE { [registered |-> FALSE, pointer |-> pointer, restart |-> "none"] }

\* ------------------------------------------------------- the running process

Running == BagToSet(tasks)
TaskAdd(n) == tasks' = tasks (+) SetToBag({n})
TaskRemove(t) == tasks' = tasks (-) SetToBag({t})
TaskReplace(t, n) == tasks' = (tasks (-) SetToBag({t})) (+) SetToBag({n})

\* the app calls into the hook
CanInvoke ==
  /\ mounted
  /\ BagCardinality(tasks) < MaxTasks
  /\ ops < MaxOps
  /\ ops' = ops + 1

CheckTask ==
  [kind |-> "check", pc |-> "getMetadata", currentVersion |-> NoRel, deviceId |-> NoDevice]
InitTask == [kind |-> "init", pc |-> "getMetadata", releaseId |-> NoRel]

\* The process starts and OTAProvider mounts: the effects run the check on
\* mount (useOTAUpdate.ts 347-351) and the startup recovery (api.ts 193-228).
Mount ==
  /\ ~mounted
  /\ mounted' = TRUE
  /\ status' = "checking"
  /\ error' = NoError
  /\ tasks' = SetToBag({ CheckTask, InitTask })
  /\ UNCHANGED << serverVars, sentId, uiVars, env, files, metadata, pointer, updateInfo, releaseRef, deviceIdRef,
                  rebirth, ops >>

\* the process dies: its tasks and the hook's state go with it
ProcessDies ==
  /\ mounted' = FALSE
  /\ status' = "idle"
  /\ error' = NoError
  /\ updateInfo' = NoRel
  /\ releaseRef' = NoRel
  /\ deviceIdRef' = NoDevice
  /\ tasks' = EmptyBag
  /\ rebirth' = FALSE
  /\ isDismissed' = FALSE
  /\ handledMandatory' = FALSE
  /\ alert' = FALSE

\* what a dead process leaves behind: the disk, and nothing else
ProcessGone ==
  /\ ProcessDies
  /\ UNCHANGED << serverVars, sentId, env, files, metadata, pointer, ops >>

\* the operating system kills the process
Kill == mounted /\ ProcessGone

\* ProcessPhoenix.triggerRebirth, 200 ms after applyBundle(path, true)
Rebirth == mounted /\ rebirth /\ ProcessGone

\* ------------------------------------------ checkForUpdate (useOTAUpdate.ts)

\* the synchronous head of checkForUpdate
checkForUpdate ==
  /\ status' = "checking"
  /\ error' = NoError
  /\ TaskAdd(CheckTask)
  /\ UNCHANGED << serverVars, sentId, uiVars, env, files, metadata, pointer, mounted, updateInfo,
                  releaseRef, deviceIdRef, rebirth >>

\* the app calls checkForUpdate
CheckCall == CanInvoke /\ checkForUpdate

\* the app comes to the foreground: the listener checks only from idle
ForegroundResume ==
  /\ mounted
  /\ BagCardinality(tasks) < MaxTasks
  /\ status = "idle"
  /\ checkForUpdate
  /\ UNCHANGED ops

\* getDeviceId: a fresh random id at every call, kept nowhere
getDeviceId(ids) == ids

\* getDeviceIdCached: the id of this hook instance, drawn at its first use
getDeviceIdCached(ids) ==
  IF deviceIdRef = NoDevice THEN getDeviceId(ids) ELSE { deviceIdRef }

\* the device id and the stored metadata are read and the request is sent
CheckGetMetadata(t, ids) ==
  /\ t.kind = "check" /\ t.pc = "getMetadata"
  /\ \E deviceId \in getDeviceIdCached(ids) :
       /\ deviceIdRef' = deviceId
       /\ sentId' = deviceId
       /\ TaskReplace(t, [t EXCEPT !.pc = "checkUpdate",
                                   !.currentVersion = getMetadata.releaseId,
                                   !.deviceId = deviceId])
  /\ UNCHANGED << serverVars, uiVars, env, files, metadata, pointer, mounted, status, error,
                  updateInfo, releaseRef, rebirth, ops >>

\* The releases the server may answer with: the version of release r is r,
\* and the server offers only versions above the one reported.
Offers(currentVersion) == { r \in ClientRels : r > currentVersion }

\* the updateInfo that checkForUpdate reads: the callback is created by
\* useCallback without updateInfo among its dependencies, which never change,
\* so it keeps the updateInfo of the first render, null
updateInfoOfCallback == NoRel

\* a checkForUpdate without its catch block: a failed request leaves the
\* state as it is and the rejection goes to the caller
CheckRespondUncaught(t) ==
  /\ t.kind = "check" /\ t.pc = "checkUpdate"
  /\ TaskRemove(t)
  /\ \/ UNCHANGED << status, error, updateInfo, releaseRef, isDismissed >>
     \/ /\ status' = "up-to-date"
        /\ UNCHANGED << error, updateInfo, releaseRef, isDismissed >>
  /\ UNCHANGED << serverVars, sentId, handledMandatory, alert, env, files, metadata, pointer,
                  mounted, deviceIdRef, rebirth, ops >>

CheckRespond(t) ==
  /\ t.kind = "check" /\ t.pc = "checkUpdate"
  /\ TaskRemove(t)
  /\ \/ \* transport error or non-2xx answer
        /\ error' = "check-update failed"
        /\ status' = "error"
        /\ UNCHANGED << updateInfo, releaseRef, isDismissed >>
     \/ \* updateAvailable: false
        /\ status' = "up-to-date"
        /\ UNCHANGED << error, updateInfo, releaseRef, isDismissed >>
     \/ \E r \in Offers(t.currentVersion) :
          /\ releaseRef' = r
          /\ isDismissed' = IF updateInfoOfCallback = NoRel \/ updateInfoOfCallback # r
                              THEN FALSE ELSE isDismissed
          /\ updateInfo' = r
          /\ status' = "available"
          /\ UNCHANGED error
  /\ UNCHANGED << serverVars, sentId, handledMandatory, alert, env, files, metadata, pointer, mounted, deviceIdRef,
                  rebirth, ops >>

\* ------------------------------------------ downloadUpdate (useOTAUpdate.ts)

\* the app calls downloadUpdate; without a release it throws at once
DownloadCall(signatures, publicKeys) ==
  /\ CanInvoke
  /\ releaseRef # NoRel
  /\ \E signature \in signatures, publicKey \in publicKeys :
       TaskAdd([kind |-> "download", pc |-> "begin", release |-> releaseRef,
                signature |-> signature, publicKey |-> publicKey,
                thenApply |-> FALSE,
                data |-> "none", contentType |-> NoContentType, bundlePath |-> NoPath, registered |-> FALSE,
                wrote |-> {}])
  /\ UNCHANGED << serverVars, sentId, uiVars, env, files, metadata, pointer, hookVars, rebirth >>

DownloadBegin(t, ids) ==
  /\ t.kind = "download" /\ t.pc = "begin"
  /\ deviceIdRef' \in getDeviceIdCached(ids)
  /\ status' = "downloading"
  /\ TaskReplace(t, [t EXCEPT !.pc = "downloadBundle"])
  /\ UNCHANGED << serverVars, sentId, uiVars, env, files, metadata, pointer, mounted, error,
                  updateInfo, releaseRef, rebirth, ops >>

\* the catch block of downloadUpdate
DownloadCatch(t, err) ==
  /\ error' = err
  /\ status' = "error"
  /\ TaskRemove(t)

DownloadBundle(t, responses) ==
  /\ t.kind = "download" /\ t.pc = "downloadBundle"
  /\ \/ \* the transfer fails
        DownloadCatch(t, "download failed")
     \/ \E response \in responses, client \in ApiClients :
          IF downloadBundle(client, response)
          THEN /\ status' = "verifying"
               /\ TaskReplace(t, [t EXCEPT !.pc = "verifyBundle",
                                           !.data = response.body,
                                           !.contentType = response.contentType])
               /\ UNCHANGED error
          ELSE DownloadCatch(t, "download failed")
  /\ UNCHANGED << serverVars, sentId, uiVars, env, files, metadata, pointer, mounted, updateInfo,
                  releaseRef, deviceIdRef, rebirth, ops >>

\* a broken check that lets every bundle through
VerifyAnything(t) ==
  /\ t.kind = "download" /\ t.pc = "verifyBundle"
  /\ TaskReplace(t, [t EXCEPT !.pc = "saveBundle"])
  /\ UNCHANGED << serverVars, sentId, uiVars, env, files, metadata, pointer, hookVars, rebirth, ops >>

DownloadVerify(t) ==
  /\ t.kind = "download" /\ t.pc = "verifyBundle"
  /\ \E verification \in verifyBundle(t.data, bundleHash, t.signature, t.publicKey) :
       IF verification = "valid"
       THEN /\ TaskReplace(t, [t EXCEPT !.pc = "saveBundle"])
            /\ UNCHANGED << status, error >>
       ELSE DownloadCatch(t, verification)
  /\ UNCHANGED << serverVars, sentId, uiVars, env, files, metadata, pointer, mounted, updateInfo,
                  releaseRef, deviceIdRef, rebirth, ops >>

\* another download is in the middle of writing the same bundle file
OtherWriter(t) ==
  \E o \in Running : /\ o.kind = "download" /\ o.pc = "writeBundle"
                     /\ o.release = t.release
                     /\ (o # t \/ CopiesIn(t, tasks) > 1)

\* saveBundle: ensureDirectory, then writeFile opens and truncates the file
SaveBundleOpen(t) ==
  /\ t.kind = "download" /\ t.pc = "saveBundle"
  /\ \/ /\ DownloadCatch(t, "write failed")
        /\ UNCHANGED files
     \/ /\ files' = [files EXCEPT ![t.release] = "partial"]
        /\ TaskReplace(t, [t EXCEPT !.pc = "writeBundle",
                                    !.wrote = @ \cup { "bundle" }])
        /\ UNCHANGED << status, error >>
  /\ UNCHANGED << serverVars, sentId, uiVars, env, metadata, pointer, mounted, updateInfo, releaseRef, deviceIdRef,
                  rebirth, ops >>

\* writeFile finishes: every byte is on disk, or the write fails part-way
SaveBundleWrite(t) ==
  /\ t.kind = "download" /\ t.pc = "writeBundle"
  /\ \/ /\ DownloadCatch(t, "write failed")
        /\ UNCHANGED files
     \/ /\ files' = [files EXCEPT ![t.release] =
                       IF @ = "absent" THEN "absent"
                       ELSE IF OtherWriter(t) THEN "partial" ELSE "full"]
        /\ TaskReplace(t, [t EXCEPT !.pc = "saveMetadata",
                                    !.bundlePath = normalizePath(getRawBundlePath(t.release))])
        /\ UNCHANGED << status, error >>
  /\ UNCHANGED << serverVars, sentId, uiVars, env, metadata, pointer, mounted, updateInfo, releaseRef, deviceIdRef,
                  rebirth, ops >>

\* saveMetadata: ensureDirectory, then writeFile opens and truncates current.json
SaveMetadataOpen(t) ==
  /\ t.kind = "download" /\ t.pc = "saveMetadata"
  /\ \/ /\ DownloadCatch(t, "write failed")
        /\ UNCHANGED metadata
     \/ /\ metadata' = [NoMetadata EXCEPT !.state = "corrupt"]
        /\ TaskReplace(t, [t EXCEPT !.pc = "writeMetadata",
                                    !.wrote = @ \cup { "metadata" }])
        /\ UNCHANGED << status, error >>
  /\ UNCHANGED << serverVars, sentId, uiVars, env, files, pointer, mounted, updateInfo, releaseRef, deviceIdRef,
                  rebirth, ops >>

SaveMetadataWrite(t) ==
  /\ t.kind = "download" /\ t.pc = "writeMetadata"
  /\ \/ /\ DownloadCatch(t, "write failed")
        /\ UNCHANGED metadata
     \/ /\ metadata' = [state |-> "ok", releaseId |-> t.release, bundlePath |-> t.bundlePath]
        /\ TaskReplace(t, [t EXCEPT !.pc = "register"])
        /\ UNCHANGED << status, error >>
  /\ UNCHANGED << serverVars, sentId, uiVars, env, files, pointer, mounted, updateInfo, releaseRef, deviceIdRef,
                  rebirth, ops >>

\* registerBundleWithNative(bundlePath, false): the native call
DownloadRegister(t) ==
  /\ t.kind = "download" /\ t.pc = "register"
  /\ \E o \in registerBundleWithNative(t.bundlePath, FALSE) :
       /\ pointer' = o.pointer
       /\ TaskReplace(t, [t EXCEPT !.pc = "ready", !.registered = o.registered,
                                   !.wrote = IF o.pointer # pointer
                                               THEN @ \cup { "pointer" } ELSE @])
  /\ UNCHANGED << serverVars, sentId, uiVars, env, files, metadata, hookVars, rebirth, ops >>

\* the result of the registration is logged and dropped; setStatus('ready')
\* setStatus('ready'); downloadUpdate returns, and the "Update Now" handler
\* that awaited it goes on to applyUpdate(true)
DownloadReady(t) ==
  /\ t.kind = "download" /\ t.pc = "ready"
  /\ status' = "ready"
  /\ IF t.thenApply
       THEN TaskReplace(t, [kind |-> "apply", pc |-> "getMetadata", restartApp |-> TRUE,
                            metadata |-> NoMetadata, registered |-> FALSE])
       ELSE TaskRemove(t)
  /\ UNCHANGED << serverVars, sentId, uiVars, env, files, metadata, pointer, mounted, error,
                  updateInfo, releaseRef, deviceIdRef, rebirth, ops >>

\* --------------------------------------------- applyUpdate (useOTAUpdate.ts)

ApplyCall(restartApp) ==
  /\ CanInvoke
  /\ TaskAdd([kind |-> "apply", pc |-> "getMetadata", restartApp |-> restartApp,
              metadata |-> NoMetadata, registered |-> FALSE])
  /\ UNCHANGED << serverVars, sentId, uiVars, env, files, metadata, pointer, hookVars, rebirth >>

\* without metadata applyUpdate throws before touching anything
ApplyGetMetadata(t) ==
  /\ t.kind = "apply" /\ t.pc = "getMetadata"
  /\ IF getMetadata = NoMetadata
       THEN TaskRemove(t)
       ELSE TaskReplace(t, [t EXCEPT !.pc = "begin", !.metadata = getMetadata])
  /\ UNCHANGED << serverVars, sentId, uiVars, env, files, metadata, pointer, hookVars, rebirth, ops >>

ApplyBegin(t, ids) ==
  /\ t.kind = "apply" /\ t.pc = "begin"
  /\ deviceIdRef' \in getDeviceIdCached(ids)
  /\ status' = "applying"
  /\ TaskReplace(t, [t EXCEPT !.pc = "register"])
  /\ UNCHANGED << serverVars, sentId, uiVars, env, files, metadata, pointer, mounted, error,
                  updateInfo, releaseRef, rebirth, ops >>

\* registerBundleWithNative(metadata.bundlePath, restartApp): the native call;
\* the Android module that uses apply() kills the process before it answers
ApplyRegister(t) ==
  /\ t.kind = "apply" /\ t.pc = "register"
  /\ \E o \in registerBundleWithNative(t.metadata.bundlePath, t.restartApp) :
       /\ pointer' = o.pointer
       /\ IF o.restart = "killed"
            THEN ProcessDies
            ELSE /\ rebirth' = (rebirth \/ o.restart = "scheduled")
                 /\ TaskReplace(t, [t EXCEPT !.pc = "registered",
                                             !.registered = o.registered])
                 /\ UNCHANGED << hookVars, uiVars >>
  /\ UNCHANGED << serverVars, sentId, env, files, metadata, ops >>

\* the result of the registration is logged and dropped; setStatus('idle')
ApplyDone(t) ==
  /\ t.kind = "apply" /\ t.pc = "registered"
  /\ status' = "idle"
  /\ TaskRemove(t)
  /\ UNCHANGED << serverVars, sentId, uiVars, env, files, metadata, pointer, mounted, error,
                  updateInfo, releaseRef, deviceIdRef, rebirth, ops >>

\* ------------------------------------ dismissUpdate, resetDismiss, OTAProvider

dismissUpdate ==
  /\ mounted
  /\ ops < MaxOps
  /\ ops' = ops + 1
  /\ isDismissed' = TRUE
  /\ UNCHANGED << serverVars, sentId, handledMandatory, alert, env, files, metadata, pointer,
                  hookVars, tasks, rebirth >>

resetDismiss ==
  /\ mounted
  /\ ops < MaxOps
  /\ ops' = ops + 1
  /\ isDismissed' = FALSE
  /\ UNCHANGED << serverVars, sentId, handledMandatory, alert, env, files, metadata, pointer,
                  hookVars, tasks, rebirth >>

\* updateInfo.isMandatory of the release, for the releases marked mandatory
isMandatory(release, mandatory) == release \in mandatory

\* the callbacks effect of OTAProvider, with showMandatoryUpdateAlert at its
\* default: the first mandatory update of the process raises the alert
HandleCallbacks(mandatory) ==
  /\ mounted
  /\ status = "available" /\ updateInfo # NoRel
  /\ isMandatory(updateInfo, mandatory)
  /\ ~handledMandatory
  /\ handledMandatory' = TRUE
  /\ alert' = TRUE
  /\ UNCHANGED << serverVars, sentId, isDismissed, env, files, metadata, pointer, hookVars,
                  tasks, rebirth, ops >>

\* the user presses "Update Now": downloadUpdate, then applyUpdate(true);
\* without a release downloadUpdate throws and the handler drops the error
PressUpdateNow ==
  /\ mounted /\ alert
  /\ BagCardinality(tasks) < MaxTasks
  /\ alert' = FALSE
  /\ IF releaseRef = NoRel
       THEN UNCHANGED tasks
       ELSE TaskAdd([kind |-> "download", pc |-> "begin", release |-> releaseRef,
                     signature |-> "none", publicKey |-> FALSE, thenApply |-> TRUE,
                     data |-> "none", contentType |-> NoContentType,
                     bundlePath |-> NoPath, registered |-> FALSE, wrote |-> {}])
  /\ UNCHANGED << serverVars, sentId, isDismissed, handledMandatory, env, files, metadata,
                  pointer, hookVars, rebirth, ops >>

\* ------------------------------------- clearPendingUpdate (useOTAUpdate.ts)

\* clearNativePendingBundle: the pointer it leaves; a missing module and a
\* failed commit both leave the stored pointer as it was
clearNativePendingBundle(committed) ==
  IF env.native /\ committed THEN NoPath ELSE pointer

ClearCall ==
  /\ CanInvoke
  /\ TaskAdd([kind |-> "clear", pc |-> "getMetadata", releaseId |-> NoRel])
  /\ UNCHANGED << serverVars, sentId, uiVars, env, files, metadata, pointer, hookVars, rebirth >>

ClearGetMetadata(t) ==
  /\ t.kind = "clear" /\ t.pc = "getMetadata"
  /\ IF getMetadata = NoMetadata
       THEN TaskReplace(t, [t EXCEPT !.pc = "clearNative"])
       ELSE TaskReplace(t, [t EXCEPT !.pc = "deleteBundle",
                                     !.releaseId = getMetadata.releaseId])
  /\ UNCHANGED << serverVars, sentId, uiVars, env, files, metadata, pointer, hookVars, rebirth, ops >>

ClearDeleteBundle(t) ==
  /\ t.kind = "clear" /\ t.pc = "deleteBundle"
  /\ files' = [files EXCEPT ![t.releaseId] = "absent"]
  /\ TaskReplace(t, [t EXCEPT !.pc = "clearMetadata"])
  /\ UNCHANGED << serverVars, sentId, uiVars, env, metadata, pointer, hookVars, rebirth, ops >>

ClearMetadata(t) ==
  /\ t.kind = "clear" /\ t.pc = "clearMetadata"
  /\ metadata' = NoMetadata
  /\ TaskReplace(t, [t EXCEPT !.pc = "clearNative"])
  /\ UNCHANGED << serverVars, sentId, uiVars, env, files, pointer, hookVars, rebirth, ops >>

\* clearNativePendingBundle, then the hook state is reset
ClearNative(t) ==
  /\ t.kind = "clear" /\ t.pc = "clearNative"
  /\ \E committed \in BOOLEAN : pointer' = clearNativePendingBundle(committed)
  /\ updateInfo' = NoRel
  /\ releaseRef' = NoRel
  /\ status' = "idle"
  /\ TaskRemove(t)
  /\ UNCHANGED << serverVars, sentId, uiVars, env, files, metadata, mounted, error, deviceIdRef,
                  rebirth, ops >>

\* ---------------------- startup recovery (api.ts 193-228, storage.ts 635-663)

\* clearCorruptedBundle reads the metadata; without it, it returns false
InitGetMetadata(t) ==
  /\ t.kind = "init" /\ t.pc = "getMetadata"
  /\ IF getMetadata = NoMetadata
       THEN TaskReplace(t, [t EXCEPT !.pc = "getMetadataAgain"])
       ELSE TaskReplace(t, [t EXCEPT !.pc = "validateBundle",
                                     !.releaseId = getMetadata.releaseId])
  /\ UNCHANGED << serverVars, sentId, uiVars, env, files, metadata, pointer, hookVars, rebirth, ops >>

\* a recovery that clears the staged bundle whatever validateBundle answers
InitValidateDistrusts(t) ==
  /\ t.kind = "init" /\ t.pc = "validateBundle"
  /\ TaskReplace(t, [t EXCEPT !.pc = "deleteBundle"])
  /\ UNCHANGED << serverVars, sentId, uiVars, env, files, metadata, pointer, hookVars, rebirth, ops >>

InitValidate(t) ==
  /\ t.kind = "init" /\ t.pc = "validateBundle"
  /\ \E isValid \in validateBundle(t.releaseId) :
       TaskReplace(t, [t EXCEPT !.pc = IF isValid THEN "getMetadataAgain"
                                                  ELSE "deleteBundle"])
  /\ UNCHANGED << serverVars, sentId, uiVars, env, files, metadata, pointer, hookVars, rebirth, ops >>

InitDeleteBundle(t) ==
  /\ t.kind = "init" /\ t.pc = "deleteBundle"
  /\ files' = [files EXCEPT ![t.releaseId] = "absent"]
  /\ TaskReplace(t, [t EXCEPT !.pc = "clearMetadata"])
  /\ UNCHANGED << serverVars, sentId, uiVars, env, metadata, pointer, hookVars, rebirth, ops >>

InitClearMetadata(t) ==
  /\ t.kind = "init" /\ t.pc = "clearMetadata"
  /\ metadata' = NoMetadata
  /\ TaskReplace(t, [t EXCEPT !.pc = "clearNative"])
  /\ UNCHANGED << serverVars, sentId, uiVars, env, files, pointer, hookVars, rebirth, ops >>

InitClearNative(t) ==
  /\ t.kind = "init" /\ t.pc = "clearNative"
  /\ \E committed \in BOOLEAN : pointer' = clearNativePendingBundle(committed)
  /\ TaskReplace(t, [t EXCEPT !.pc = "getMetadataAgain"])
  /\ UNCHANGED << serverVars, sentId, uiVars, env, files, metadata, hookVars, rebirth, ops >>

\* initializeOTA reads the metadata again after clearCorruptedBundle
InitGetMetadataAgain(t) ==
  /\ t.kind = "init" /\ t.pc = "getMetadataAgain"
  /\ IF getMetadata = NoMetadata \/ getMetadata.bundlePath = NoPath
       THEN TaskRemove(t)
       ELSE TaskReplace(t, [t EXCEPT !.pc = "validateAgain",
                                     !.releaseId = getMetadata.releaseId])
  /\ UNCHANGED << serverVars, sentId, uiVars, env, files, metadata, pointer, hookVars, rebirth, ops >>

InitValidateAgain(t) ==
  /\ t.kind = "init" /\ t.pc = "validateAgain"
  /\ \E bundleExists \in validateBundle(t.releaseId) :
       IF bundleExists
         THEN TaskRemove(t)
         ELSE TaskReplace(t, [t EXCEPT !.pc = "clearMetadataAgain"])
  /\ UNCHANGED << serverVars, sentId, uiVars, env, files, metadata, pointer, hookVars, rebirth, ops >>

InitClearMetadataAgain(t) ==
  /\ t.kind = "init" /\ t.pc = "clearMetadataAgain"
  /\ metadata' = NoMetadata
  /\ TaskReplace(t, [t EXCEPT !.pc = "clearNativeAgain"])
  /\ UNCHANGED << serverVars, sentId, uiVars, env, files, pointer, hookVars, rebirth, ops >>

InitClearNativeAgain(t) ==
  /\ t.kind = "init" /\ t.pc = "clearNativeAgain"
  /\ \E committed \in BOOLEAN : pointer' = clearNativePendingBundle(committed)
  /\ TaskRemove(t)
  /\ UNCHANGED << serverVars, sentId, uiVars, env, files, metadata, hookVars, rebirth, ops >>

\* ------------------------------------------------------- the device's disk

\* a staged bundle file is removed behind the agent's back
BundleLost(r) ==
  /\ files[r] # "absent"
  /\ files' = [files EXCEPT ![r] = "absent"]
  /\ UNCHANGED << serverVars, sentId, uiVars, env, metadata, pointer, hookVars, tasks, rebirth, ops >>

\* ------------------------------------------------------------ specifications

CheckStep(q) ==
  \/ CheckDbLatest(q)
  \/ CheckCachePut(q)
  \/ CheckRollout(q)

PublishStep(q, gaps) ==
  \/ PublishInsert(q, gaps)
  \/ PublishCreateRollout(q)
  \/ PublishDeactivate(q)
  \/ PublishInvalidate(q)
  \/ PublishRespond(q)

RollbackStep(q) ==
  \/ RollbackDeactivate(q)
  \/ RollbackActivate(q)
  \/ RollbackInvalidate(q)

RolloutStep(q) ==
  \/ RolloutUpdate(q)
  \/ RolloutInvalidate(q)
  \/ RolloutRespond(q)

DeleteStep(q) ==
  \/ DeleteCount(q)
  \/ DeleteStatus(q)
  \/ DeleteRow(q)
  \/ DeleteInvalidate(q)

ServerNext ==
  \/ StartCheck(Platforms, DeviceIds, AppVersions, CurrentVersions, MaxStarted)
  \/ \E q \in InFlight : CheckStep(q)
  \/ StartPublish(Versions, [min : MinAppVersions, max : {NoVersion}], MaxStarted)
  \/ \E q \in InFlight : PublishStep(q, {1})
  \/ StartRollback
  \/ \E q \in InFlight : RollbackStep(q)
  \/ StartRolloutChange(Percentages, MaxStarted)
  \/ \E q \in InFlight : RolloutStep(q)
  \/ StartDelete
  \/ \E q \in InFlight : DeleteStep(q)
  \/ \E q \in InFlight : Return(q)
  \/ \E p \in Platforms : CacheExpire(p)

ServerSpec == ServerOnlyInit /\ [][ServerNext]_vars

\* The resolution requests of one platform and one app version against every
\* kind of mutation: the slice in which the answers of check-update are examined.
ResolveNext ==
  \/ StartCheck({"ios"}, DeviceIds, {<<2, 0, 0>>}, {NoVersion}, MaxStarted)
  \/ \E q \in InFlight : CheckStep(q)
  \/ StartPublish(Versions, {Unbounded}, MaxStarted)
  \/ \E q \in InFlight : PublishStep(q, {1})
  \/ StartRollback
  \/ \E q \in InFlight : RollbackStep(q)
  \/ StartRolloutChange({50}, MaxStarted)
  \/ \E q \in InFlight : RolloutStep(q)
  \/ StartDelete
  \/ \E q \in InFlight : DeleteStep(q)
  \/ \E q \in InFlight : Return(q)
  \/ CacheExpire("ios")

ResolveSpec == ServerOnlyInit /\ [][ResolveNext]_vars

\* Devices on an installed version against publishes and rollbacks: the slice
\* in which the version of the answer is examined.
InstalledVersions == { <<1, 0, 1>>, <<1, 1, 0>> }

VersionNext ==
  \/ StartCheck({"ios"}, {<<122>>}, {<<2, 0, 0>>}, InstalledVersions, MaxStarted)
  \/ \E q \in InFlight : CheckStep(q)
  \/ StartPublish(Versions, {Unbounded}, MaxStarted)
  \/ \E q \in InFlight : PublishStep(q, {1})
  \/ StartRollback
  \/ \E q \in InFlight : RollbackStep(q)
  \/ StartRolloutChange({50}, MaxStarted)
  \/ \E q \in InFlight : RolloutStep(q)
  \/ \E q \in InFlight : Return(q)
  \/ CacheExpire("ios")

VersionSpec == ServerOnlyInit /\ [][VersionNext]_vars

\* Devices of every app version against publishes with app-version ranges:
\* the slice in which the compatibility of the answer is examined.
RangeAppVersions == { <<1, 9, 9>>, <<2, 0>>, <<2, 0, 1>> }

RangeNext ==
  \/ StartCheck({"ios"}, {<<122>>}, RangeAppVersions, {NoVersion}, MaxStarted)
  \/ \E q \in InFlight : CheckStep(q)
  \/ StartPublish(Versions, AppRanges, MaxStarted)
  \/ \E q \in InFlight : PublishStep(q, {1})
  \/ \E q \in InFlight : Return(q)
  \/ CacheExpire("ios")

RangeSpec == ServerOnlyInit /\ [][RangeNext]_vars

\* Cache misses against publishes that may fall into one second of the
\* database clock: the slice in which the choice of the resolver is examined.
RecencyNext ==
  \/ StartCheck({"ios"}, DeviceIds, {<<2, 0, 0>>}, {NoVersion}, MaxStarted)
  \/ \E q \in InFlight : CheckStep(q)
  \/ StartPublish(Versions, {Unbounded}, MaxStarted)
  \/ \E q \in InFlight : PublishStep(q, {0, 1})
  \/ StartRolloutChange({50}, MaxStarted)
  \/ \E q \in InFlight : RolloutStep(q)
  \/ \E q \in InFlight : Return(q)
  \/ CacheExpire("ios")

RecencySpec == ServerOnlyInit /\ [][RecencyNext]_vars

\* Every release is published by `release --rollout 50` while devices check:
\* the slice in which the initial rollout of a release is examined.
CliNext ==
  \/ StartCheck({"ios"}, DeviceIds, {<<2, 0, 0>>}, {NoVersion}, MaxStarted)
  \/ \E q \in InFlight : CheckStep(q)
  \/ CliCreateRelease
  \/ \E q \in InFlight : PublishStep(q, {1})
  \/ CliUpdateRollout
  \/ \E q \in InFlight : RolloutStep(q)
  \/ \E q \in InFlight : Return(q)
  \/ CacheExpire("ios")

CliSpec == ServerOnlyInit /\ [][CliNext]_vars

\* One device on an old version against publishes and rollout changes, over
\* longer histories: the slice in which the answer after a raise is examined.
LongRun == MaxStarted + 2

RaiseNext ==
  \/ StartCheck({"ios"}, {<<97>>}, {<<2, 0, 0>>}, {<<1, 0, 0>>}, LongRun)
  \/ \E q \in InFlight : CheckStep(q)
  \/ StartPublish(Versions, {Unbounded}, LongRun)
  \/ \E q \in InFlight : PublishStep(q, {1})
  \/ StartRolloutChange({50, 100}, LongRun)
  \/ \E q \in InFlight : RolloutStep(q)
  \/ \E q \in InFlight : Return(q)

RaiseSpec == ServerOnlyInit /\ [][RaiseNext]_vars

\* Publish requests alone: the slice in which the outcome of concurrent
\* publishes is examined.
PublishNext ==
  \/ StartPublish(Versions, [min : MinAppVersions, max : {NoVersion}], MaxStarted)
  \/ \E q \in InFlight : PublishStep(q, {1})
  \/ \E q \in InFlight : Return(q)

PublishSpec == ServerOnlyInit /\ [][PublishNext]_vars

\* ---- the device on its own

CheckStepC(t, ids) == CheckGetMetadata(t, ids) \/ CheckRespond(t)

DownloadStepFrom(t, ids, responses) ==
  \/ DownloadBegin(t, ids)
  \/ DownloadBundle(t, responses)
  \/ DownloadVerify(t)
  \/ SaveBundleOpen(t)
  \/ SaveBundleWrite(t)
  \/ SaveMetadataOpen(t)
  \/ SaveMetadataWrite(t)
  \/ DownloadRegister(t)
  \/ DownloadReady(t)

DownloadStep(t, ids) == DownloadStepFrom(t, ids, BundleResponses)

ApplyStep(t, ids) ==
  \/ ApplyGetMetadata(t)
  \/ ApplyBegin(t, ids)
  \/ ApplyRegister(t)
  \/ ApplyDone(t)

ClearStep(t) ==
  \/ ClearGetMetadata(t)
  \/ ClearDeleteBundle(t)
  \/ ClearMetadata(t)
  \/ ClearNative(t)

InitStep(t) ==
  \/ InitGetMetadata(t)
  \/ InitValidate(t)
  \/ InitDeleteBundle(t)
  \/ InitClearMetadata(t)
  \/ InitClearNative(t)
  \/ InitGetMetadataAgain(t)
  \/ InitValidateAgain(t)
  \/ InitClearMetadataAgain(t)
  \/ InitClearNativeAgain(t)

\* the server never starts
ClientOnlyInit == Init

\* the one id that getDeviceId draws while staging is explored
StageIds == { <<97>> }

\* Staging: checks, downloads and applies, under kills and restarts.
StageNext ==
  \/ Mount
  \/ Kill
  \/ Rebirth
  \/ CheckCall
  \/ ForegroundResume
  \/ DownloadCall({"none"}, {FALSE})
  \/ \E restartApp \in BOOLEAN : ApplyCall(restartApp)
  \/ \E t \in Running : CheckStepC(t, StageIds)
  \/ \E t \in Running : DownloadStep(t, StageIds)
  \/ \E t \in Running : ApplyStep(t, StageIds)
  \/ \E t \in Running : InitStep(t)

StageSpec == ClientOnlyInit /\ [][StageNext]_vars

\* The whole agent: staging, clearPendingUpdate, and files lost on disk.
AgentNext ==
  \/ StageNext
  \/ ClearCall
  \/ \E t \in Running : ClearStep(t)
  \/ \E r \in ClientRels : BundleLost(r)

AgentSpec == ClientOnlyInit /\ [][AgentNext]_vars

\* The device's identity: checks under kills and restarts, with every id that
\* getDeviceId can draw.
DeviceNext ==
  \/ Mount
  \/ Kill
  \/ CheckCall
  \/ \E t \in Running : CheckStepC(t, DeviceIds)
  \/ \E t \in Running : InitStep(t)

DeviceSpec == ClientOnlyInit /\ [][DeviceNext]_vars

\* Signed releases: downloads of releases with and without a signature, by
\* apps with and without a public key.
SignNext ==
  \/ Mount
  \/ Kill
  \/ CheckCall
  \/ DownloadCall(Signatures, BOOLEAN)
  \/ \E t \in Running : CheckStepC(t, StageIds)
  \/ \E t \in Running : DownloadStep(t, StageIds)
  \/ \E t \in Running : InitStep(t)

SignSpec == ClientOnlyInit /\ [][SignNext]_vars

\* Downloads from a bundle URL that may answer with an HTML page.
HtmlNext ==
  \/ Mount
  \/ Kill
  \/ CheckCall
  \/ DownloadCall({"none"}, {FALSE})
  \/ \E t \in Running : CheckStepC(t, StageIds)
  \/ \E t \in Running : DownloadStepFrom(t, StageIds, Responses)
  \/ \E t \in Running : InitStep(t)

HtmlSpec == ClientOnlyInit /\ [][HtmlNext]_vars

\* Verification on its own: one session of checks and of downloads of signed
\* and unsigned releases, followed to the return of verifyBundle.
VerifyNext ==
  \/ Mount
  \/ DownloadCall(Signatures, BOOLEAN)
  \/ \E t \in Running : CheckStepC(t, StageIds)
  \/ \E t \in Running : DownloadBegin(t, StageIds)
  \/ \E t \in Running : DownloadBundle(t, BundleResponses)
  \/ \E t \in Running : DownloadVerify(t)
  \/ \E t \in Running : InitStep(t)

VerifySpec == ClientOnlyInit /\ [][VerifyNext]_vars

\* Mandatory updates: every release the server offers is mandatory. The
\* provider's effect, the user's answer to the alert, and the operations the
\* answer starts, under kills and restarts.
MandatoryRels == ClientRels

ProviderStep ==
  \/ HandleCallbacks(MandatoryRels)
  \/ \E t \in Running : CheckStepC(t, StageIds)
  \/ \E t \in Running : DownloadStep(t, StageIds)
  \/ \E t \in Running : ApplyStep(t, StageIds)
  \/ \E t \in Running : InitStep(t)

MandatoryNext ==
  \/ Mount
  \/ Kill
  \/ Rebirth
  \/ CheckCall
  \/ ForegroundResume
  \/ PressUpdateNow
  \/ ProviderStep

\* the effect and the asynchronous operations run whenever they can; the
\* user, the app and the operating system act when they please
MandatorySpec == ClientOnlyInit /\ [][MandatoryNext]_vars /\ WF_vars(ProviderStep)

\* Dismissal: checks, and the user hiding and restoring the update banner.
DismissNext ==
  \/ Mount
  \/ Kill
  \/ CheckCall
  \/ dismissUpdate
  \/ resetDismiss
  \/ \E t \in Running : CheckStepC(t, StageIds)
  \/ \E t \in Running : InitStep(t)

DismissSpec == ClientOnlyInit /\ [][DismissNext]_vars

\* The pure functions of rollout.ts on their own: one call, with its arguments
\* drawn at the start, is evaluated and its result kept with the arguments.
PureInit(calls) ==
  /\ releases = {} /\ rollouts = {}
  /\ cache = [p \in CacheKeys |-> NoCached]
  /\ nextRel = 0 /\ clock = 0 /\ started = 0
  /\ req \in { SetToBag({ call }) : call \in calls }
  /\ ClientInit /\ env = BareEnv

Returned(q) == q.pc = "returned"

\* device ids of one to eighteen code units, among them ids whose hash wraps
\* around 32 bits, and the empty id
HashedIds ==
  { << >>, <<48>>, <<97>>, <<122>>, <<97, 98>>, <<65535, 65535>>,
    <<100, 101, 118, 105, 99, 101, 95, 48>>,
    <<100, 101, 118, 105, 99, 101, 95, 122, 122, 122, 122>>,
    <<100, 101, 118, 105, 99, 101, 95, 107, 50, 120, 57, 113, 55, 108, 51, 109, 48, 97>>,
    <<65535, 65535, 65535, 65535, 65535, 65535, 65535>> }

\* percentages below, at, between and above the two ends
HashedPercentages == { -1, 0, 1, 12, 13, 48, 49, 79, 80, 99, 100, 101 }

RolloutCalls ==
  [kind : { "shouldReceiveUpdate" }, pc : { "call" }, deviceId : HashedIds,
   percentage : HashedPercentages, result : { FALSE }]

EvalShouldReceiveUpdate ==
  \E q \in InFlight :
    /\ q.kind = "shouldReceiveUpdate" /\ q.pc = "call"
    /\ req' = SetToBag({ [q EXCEPT !.pc = "returned",
                                   !.result = shouldReceiveUpdate(q.deviceId, q.percentage)] })
    /\ UNCHANGED << releases, rollouts, cache, nextRel, clock, started, clientVars >>

RolloutFnNext == EvalShouldReceiveUpdate

\* version strings as the lists v.split('.').map(Number) makes of them: one
\* to MaxParts components, each a number or NaN
MaxParts == 2
Components == { 0, 1, 2, NotANumber }
VersionStrings ==
  UNION { [1..n -> Components] : n \in 1..MaxParts }

\* three versions and the comparisons among them
CompareCalls ==
  [kind : { "compareVersions" }, pc : { "call" },
   a : VersionStrings, b : VersionStrings, c : VersionStrings,
   aa : { 0 }, ab : { 0 }, ba : { 0 }, bc : { 0 }, ac : { 0 }]

EvalCompareVersions ==
  \E q \in InFlight :
    /\ q.kind = "compareVersions" /\ q.pc = "call"
    /\ req' = SetToBag({ [q EXCEPT !.pc = "returned",
                                   !.aa = compareVersions(q.a, q.a),
                                   !.ab = compareVersions(q.a, q.b),
                                   !.ba = compareVersions(q.b, q.a),
                                   !.bc = compareVersions(q.b, q.c),
                                   !.ac = compareVersions(q.a, q.c)] })
    /\ UNCHANGED << releases, rollouts, cache, nextRel, clock, started, clientVars >>

CompareFnNext == EvalCompareVersions

CompareFnSpec == PureInit(CompareCalls) /\ [][CompareFnNext]_vars

RolloutFnSpec == PureInit(RolloutCalls) /\ [][RolloutFnNext]_vars

\* One publish and one rollback at a time, free to interleave with each other:
\* the slice in which the outcome of a rollback is examined.
KindInFlight(kind) == \E q \in InFlight : q.kind = kind /\ q.pc # "done"

RollbackNext ==
  \/ ~KindInFlight("publish") /\ StartPublish(Versions, {Unbounded}, LongRun)
  \/ \E q \in InFlight : PublishStep(q, {1})
  \/ ~KindInFlight("rollback") /\ StartRollbackWithin(LongRun)
  \/ \E q \in InFlight : RollbackStep(q)
  \/ \E q \in InFlight : Return(q)

RollbackSpec == ServerOnlyInit /\ [][RollbackNext]_vars

\* Deletes against one publish and one rollback at a time: the slice in which
\* what a delete leaves behind is examined.
DeleteNext ==
  \/ ~KindInFlight("publish") /\ StartPublish(Versions, {Unbounded}, LongRun)
  \/ \E q \in InFlight : PublishStep(q, {1})
  \/ ~KindInFlight("rollback") /\ StartRollbackWithin(LongRun)
  \/ \E q \in InFlight : RollbackStep(q)
  \/ ~KindInFlight("delete") /\ StartDeleteWithin(LongRun)
  \/ \E q \in InFlight : DeleteStep(q)
  \/ \E q \in InFlight : Return(q)

DeleteSpec == ServerOnlyInit /\ [][DeleteNext]_vars

\* ------------------------------ the Android bootstrap (OTAUpdateHelper.kt)
\*
\* What the native side keeps across process starts, on its own: the two
\* preferences, the installed version code and the bundle file the pointer
\* names.  One record holds them, with the answer of the last bootstrap.

\* a preference that is not set reads as null
NullPath == "null"
StagedPath == "/data/user/0/app/files/ota-update/bundles/rel.bundle"
NoAppVersion == 0
VersionCodes == { 1, 2 }

\* file.length() < 100 (OTAUpdateHelper.kt 51, 166; applyBundle)
MinBundleBytes == 100
Lengths == { 50, MinBundleBytes, 5000 }

\* markers a staged file must not begin with (storage.ts validateBundle)
HtmlMarkers == { "<!DOCTYPE", "<!doctype", "<html", "<HTML" }
\* markers getJSBundleFile looks for in the first 50 bytes
HelperMarkers == { "<!DOCTYPE", "<html", "<HTML" }

\* The first 50 bytes of a file: what it starts with, and a marker that
\* follows within them ("none" when there is none).
Heads == [starts : HtmlMarkers \cup { "var " }, follows : { "none", "<html" }]

\* preview.contains(marker)
PreviewContains(head, marker) == head.starts = marker \/ head.follows = marker

\* the file at StagedPath; readFails: file.inputStream() or readNBytes throws
AbsentFile == [exists |-> FALSE, canRead |-> FALSE, length |-> 50,
               head |-> [starts |-> "var ", follows |-> "none"], readFails |-> FALSE]
FileStates ==
  { AbsentFile } \cup
  { f \in [exists : { TRUE }, canRead : BOOLEAN, length : Lengths, head : Heads,
           readFails : BOOLEAN] :
      /\ ~f.canRead => (f.length = MinBundleBytes /\ f.head = AbsentFile.head /\ f.readFails)
      /\ f.length = 50 => (f.head = AbsentFile.head /\ ~f.readFails)
      /\ f.head.follows # "none" => f.head.starts = "<!doctype" }

\* the two revisions of OTAUpdateHelper the file holds
Helpers == { "plain", "versioned" }

\* a fresh install: no preference set, nothing staged, nothing loaded yet;
\* writer and writtenAt record who stored BundlePath and under which version code
BootStates ==
  [kind : { "boot" }, pc : { "stopped" }, helper : Helpers,
   BundlePath : { NullPath }, AppVersion : { NoAppVersion },
   versionCode : { 1 }, file : { AbsentFile }, result : { "none" },
   writer : { "none" }, writtenAt : { NoAppVersion }]

\* prefs.edit().remove(KEY_BUNDLE_PATH).commit(); return null
ClearsPath(q) == [q EXCEPT !.BundlePath = NullPath, !.result = NullPath]

\* getJSBundleFile, lines 24-63
getJSBundleFilePlain(q) ==
  IF q.BundlePath = NullPath THEN [q EXCEPT !.result = NullPath]
  ELSE IF ~q.file.exists THEN ClearsPath(q)
  ELSE IF ~q.file.canRead THEN [q EXCEPT !.result = NullPath]
  ELSE IF q.file.length < MinBundleBytes THEN ClearsPath(q)
  ELSE [q EXCEPT !.result = q.BundlePath]

\* getJSBundleFile, lines 120-194
getJSBundleFileVersioned(q) ==
  IF q.AppVersion # NoAppVersion /\ q.AppVersion # q.versionCode
    THEN [q EXCEPT !.BundlePath = NullPath, !.AppVersion = NoAppVersion,
                   !.result = NullPath]
  ELSE IF q.BundlePath = NullPath THEN [q EXCEPT !.result = NullPath]
  ELSE IF ~q.file.exists THEN ClearsPath(q)
  ELSE IF ~q.file.canRead THEN ClearsPath(q)
  ELSE IF q.file.length < MinBundleBytes THEN ClearsPath(q)
  ELSE IF /\ ~q.file.readFails
          /\ \E marker \in HelperMarkers : PreviewContains(q.file.head, marker)
    THEN ClearsPath(q)
  ELSE [q EXCEPT !.result = q.BundlePath]

getJSBundleFile(q) ==
  IF q.helper = "plain" THEN getJSBundleFilePlain(q) ELSE getJSBundleFileVersioned(q)

\* the process starts: MainApplication asks the helper which bundle to load
Bootstrap(q) ==
  /\ q.kind = "boot"
  /\ req' = SetToBag({ getJSBundleFile(q) })
  /\ UNCHANGED << releases, rollouts, cache, nextRel, clock, started, clientVars >>

\* the module's applyBundle (part_008 266-304): the file checks, then
\* putString("BundlePath", bundlePath); AppVersion is not written
NativeApplyBundle(q) ==
  /\ q.kind = "boot"
  /\ q.file.exists /\ q.file.canRead /\ q.file.length >= MinBundleBytes
  /\ req' = SetToBag({ [q EXCEPT !.BundlePath = StagedPath, !.writer = "applyBundle",
                                 !.writtenAt = q.versionCode] })
  /\ UNCHANGED << releases, rollouts, cache, nextRel, clock, started, clientVars >>

\* OTAUpdateHelper.saveBundlePath (250-262), for a host that calls it
SaveBundlePath(q) ==
  /\ q.kind = "boot" /\ q.helper = "versioned"
  /\ req' = SetToBag({ [q EXCEPT !.BundlePath = StagedPath, !.AppVersion = q.versionCode,
                                 !.writer = "saveBundlePath",
                                 !.writtenAt = q.versionCode] })
  /\ UNCHANGED << releases, rollouts, cache, nextRel, clock, started, clientVars >>

\* the store installs another version of the app over this one
Upgrade(q) ==
  /\ q.kind = "boot"
  /\ \E code \in VersionCodes \ { q.versionCode } :
       req' = SetToBag({ [q EXCEPT !.versionCode = code] })
  /\ UNCHANGED << releases, rollouts, cache, nextRel, clock, started, clientVars >>

\* the file at StagedPath is written, truncated, replaced or removed
FileChanges(q) ==
  /\ q.kind = "boot"
  /\ \E f \in FileStates \ { q.file } : req' = SetToBag({ [q EXCEPT !.file = f] })
  /\ UNCHANGED << releases, rollouts, cache, nextRel, clock, started, clientVars >>

BootNext ==
  \E q \in InFlight :
    \/ Bootstrap(q)
    \/ NativeApplyBundle(q)
    \/ SaveBundlePath(q)
    \/ Upgrade(q)
    \/ FileChanges(q)

BootSpec == PureInit(BootStates) /\ [][BootNext]_vars

\* Checks of devices on two native versions against publishes with and without
\* a minimum app version, and rollbacks: the slice in which a cache hit is
\* compared with a miss.
CacheNext ==
  \/ StartCheck({"ios"}, {<<97>>}, AppVersions, {NoVersion}, LongRun)
  \/ \E q \in InFlight : CheckStep(q)
  \/ StartPublish(Versions, [min : MinAppVersions, max : {NoVersion}], LongRun)
  \/ \E q \in InFlight : PublishStep(q, {1})
  \/ StartRollbackWithin(LongRun)
  \/ \E q \in InFlight : RollbackStep(q)
  \/ \E q \in InFlight : Return(q)

CacheSpec == ServerOnlyInit /\ [][CacheNext]_vars

\* one device id and two percentages: shouldReceiveUpdate at each of them
MonotoneCalls ==
  [kind : { "shouldReceiveUpdateTwice" }, pc : { "call" }, deviceId : HashedIds,
   p : HashedPercentages, q : HashedPercentages, atP : { FALSE }, atQ : { FALSE }]

EvalShouldReceiveUpdateTwice ==
  \E c \in InFlight :
    /\ c.kind = "shouldReceiveUpdateTwice" /\ c.pc = "call"
    /\ req' = SetToBag({ [c EXCEPT !.pc = "returned",
                                   !.atP = shouldReceiveUpdate(c.deviceId, c.p),
                                   !.atQ = shouldReceiveUpdate(c.deviceId, c.q)] })
    /\ UNCHANGED << releases, rollouts, cache, nextRel, clock, started, clientVars >>

MonotoneFnNext == EvalShouldReceiveUpdateTwice

MonotoneFnSpec == PureInit(MonotoneCalls) /\ [][MonotoneFnNext]_vars

\* ------------------------------------------------------------------ claims

ActiveRollouts == { ro \in rollouts : ro.is_active }

MutationKinds == { "publish", "rollback", "rollout", "delete" }

\* a mutation request has been received and has not answered yet
MutationInFlight == \E q \in InFlight : q.kind \in MutationKinds /\ q.pc # "done"

\* C1: at every instant the channel holds at most one rollout with is_active = 1.
C1_AtMostOneActiveRollout == Cardinality(ActiveRollouts) <= 1

\* C5: whenever check-update answers updateAvailable:true, the rollout of the
\* release it names is, in the store at that moment, active and includes the
\* requesting device under its current percentage.
LiveIncluded(rows, releaseId, deviceId) ==
  \E ro \in rows :
      /\ ro.release_id = releaseId
      /\ ro.is_active
      /\ shouldReceiveUpdate(deviceId, ro.percentage)

\* the step answers request n: n is a finished check that was not there before
Answers(n) ==
  /\ n.kind = "check" /\ n.pc = "done" /\ n.resp # NoRel
  /\ CopiesIn(n, req') > CopiesIn(n, req)

CacheEntryLive(p) ==
  cache[p] # NoCached =>
    \E ro \in rollouts : ro.release_id = cache[p].releaseId /\ ro.is_active

C6_NoStaleEntryAfterMutation ==
  ~MutationInFlight => \A p \in CacheKeys : CacheEntryLive(p)

\* C9: when all publish requests have completed, the channel has exactly one
\* active rollout and it belongs to the most recently created release.
NewestRelease == CHOOSE r \in releases : \A n \in releases : n.id <= r.id

C9_NewestAloneActiveAfterPublishes ==
  (releases # {} /\ req = EmptyBag) =>
     /\ Cardinality(ActiveRollouts) = 1
     /\ \A ro \in ActiveRollouts : ro.release_id = NewestRelease.id

\* ---- the device

\* the shape of the device's state; the stored pointer is always a plain path
ClientTypeOK ==
  /\ env \in Envs
  /\ status \in Statuses
  /\ error \in Errors \cup { NoError }
  /\ updateInfo \in ClientRels \cup { NoRel }
  /\ releaseRef \in ClientRels \cup { NoRel }
  /\ deviceIdRef \in DeviceIds \cup { NoDevice }
  /\ sentId \in DeviceIds \cup { NoDevice }
  /\ files \in [ClientRels -> { "absent", "partial", "full" }]
  /\ metadata.state \in { "absent", "corrupt", "ok" }
  /\ metadata.state = "ok" => metadata.releaseId \in ClientRels
  /\ pointer.scheme = ""
  /\ pointer.rel \in ClientRels \cup { NoRel }
  /\ mounted \in BOOLEAN /\ rebirth \in BOOLEAN
  /\ isDismissed \in BOOLEAN /\ handledMandatory \in BOOLEAN /\ alert \in BOOLEAN
  /\ ops \in 0..MaxOps
  /\ ~mounted => tasks = EmptyBag

\* the number of operations of one kind in flight
InFlightOf(kind) ==
  BagCardinality([t \in { x \in Running : x.kind = kind } |-> tasks[t]])

\* task t takes a step while the process lives on
Steps(t) == CopiesIn(t, tasks') < CopiesIn(t, tasks) /\ mounted'

\* C2: at every point of downloadUpdate and applyUpdate, a repeated download
\* of an already staged release included, the native pointer, whenever it is
\* set, names a bundle file that is completely written; a kill leaves the
\* pointer and the file as they are at that point.
C2_PointerNamesCompleteFile == pointer # NoPath => files[pointer.rel] = "full"

\* C3: startup recovery and clearPendingUpdate clear the stored metadata and
\* the native pointer together: a step of either that starts with both set
\* ends with both set or both cleared, so that a kill after any step finds
\* them in agreement.
MetadataSet == metadata.state = "ok"
PointerSet == pointer # NoPath
C3_ClearedTogether ==
  [][\A t \in Running :
       (t.kind \in { "init", "clear" } /\ Steps(t) /\ MetadataSet /\ PointerSet)
         => (MetadataSet' <=> PointerSet')]_vars

\* C4: when verification fails, downloadUpdate ends in status error with the
\* verification error, the attempt has written no bundle file, no metadata
\* and no pointer, and the failing step leaves files, metadata and pointer
\* (an empty pointer included) as they were.
FailsVerification(t) ==
  /\ t.kind = "download" /\ t.pc = "verifyBundle"
  /\ ~verifyBundleHash(t.data, bundleHash)
  /\ Steps(t)
C7_AtMostOneCheckInFlight == InFlightOf("check") <= 1

\* C8: at most one download is in flight at any time: downloadUpdate invoked
\* while a download is in progress starts no second transfer and no second
\* staging write.
C8_AtMostOneDownloadInFlight == InFlightOf("download") <= 1

\* C10: when downloadUpdate fails, at whatever step, it returns with status
\* error and the bundle file this attempt wrote is gone.
DownloadFails(t) ==
  /\ t.kind = "download" /\ t.pc # "ready"
  /\ Steps(t)
  /\ BagCardinality(tasks') < BagCardinality(tasks)
C10_FailedDownloadLeavesNoBundle ==
  [][\A t \in Running :
       DownloadFails(t)
         => /\ status' = "error"
            /\ "bundle" \in t.wrote => files'[t.release] = "absent"]_vars

\* the path a download or an apply hands to registerBundleWithNative
RegisteredPath(t) ==
  normalizePath(IF t.kind = "download" THEN t.bundlePath ELSE t.metadata.bundlePath)

\* n is the task that has just been told the native applyBundle succeeded
ToldSuccess(n) ==
  /\ n.kind \in { "download", "apply" }
  /\ n.pc \in { "ready", "registered" }
  /\ n.registered
  /\ CopiesIn(n, tasks') > CopiesIn(n, tasks)

\* C11: the native applyBundle reports success only when the pointer on disk
\* is the path it was given: a write that did not reach the disk is reported
\* as a failure.
C11_SuccessOnlyAfterDurableWrite ==
  [][\A t \in Running :
       (t.kind \in { "download", "apply" } /\ t.pc = "register" /\ Steps(t))
         => \A n \in BagToSet(tasks') :
              ToldSuccess(n) => pointer' = RegisteredPath(t)]_vars

\* downloadUpdate or applyUpdate returns for task t the way it returns when
\* the pointer was stored: status ready (download) or the success event and
\* status idle (apply, useOTAUpdate.ts 288-299), and the error left alone
ReturnsAsStored(t) ==
  /\ Steps(t)
  /\ \/ t.kind = "download" /\ t.pc = "ready" /\ status' = "ready"
     \/ t.kind = "apply" /\ t.pc = "registered" /\ status' = "idle"
  /\ error' = error

\* C12: when the pointer could not be stored (no native module, or applyBundle
\* rejected), downloadUpdate and applyUpdate do not return the way they do
\* when it was stored.
C12_UnregisteredIsSurfaced ==
  [][\A t \in Running : ReturnsAsStored(t) => t.registered]_vars

\* C13: when applyUpdate(false) returns with status idle, the pointer on disk
\* is the bundle path of the stored metadata it read.
C13_DeferredApplyStoresPointer ==
  [][\A t \in Running :
       ( /\ t.kind = "apply" /\ ~t.restartApp /\ t.pc = "registered"
         /\ Steps(t) /\ status' = "idle" )
         => pointer' = normalizePath(t.metadata.bundlePath)]_vars

\* a check sends its request, carrying the device id n.deviceId
SendsCheck(n) ==
  /\ n.kind = "check" /\ n.pc = "checkUpdate"
  /\ CopiesIn(n, tasks') > CopiesIn(n, tasks)

\* C14: at one rollout percentage, every check of this device gets the same
\* rollout-inclusion answer as its previous check got, also when the process
\* was restarted in between: the answer follows from the device and the
\* percentage alone.
C14_SameDeviceSameAnswer ==
  [][\A n \in BagToSet(tasks') :
       (SendsCheck(n) /\ sentId # NoDevice)
         => \A p \in Percentages :
              shouldReceiveUpdate(n.deviceId, p) = shouldReceiveUpdate(sentId, p)]_vars

\* a check-update request that has been answered updateAvailable: true
AnsweredWith(q) == q.kind = "check" /\ q.pc = "done" /\ q.resp # NoRel

WithinRange(appVersion, r) ==
  /\ r.min_app_version = NoVersion \/ compareVersions(appVersion, r.min_app_version) >= 0
  /\ r.max_app_version = NoVersion \/ compareVersions(r.max_app_version, appVersion) >= 0

\* C16: check-update never answers with a release to a device whose app
\* version is below the release's minAppVersion or above its maxAppVersion
\* (both inclusive, a missing bound is no bound), whether the candidate came
\* from the cache or from the store.
C16_AnswerIsCompatible ==
  \A q \in InFlight :
     AnsweredWith(q) => \E r \in releases : r.id = q.resp /\ WithinRange(q.appVersion, r)

\* a device outside the range of the cached release hits the cache and is
\* told there is no update
C16_Witness ==
  \E q \in InFlight :
     /\ q.kind = "check" /\ q.pc = "done" /\ q.resp = NoRel /\ q.fromCache
     /\ \E r \in releases : r.id = q.cachedRelease.releaseId /\ ~WithinRange(q.appVersion, r)

\* the releases with an active rollout among the 10 most recently created of
\* them (ids are handed out in the order of creation)
NewestActive ==
  { r \in ActiveReleases : Cardinality({ n \in ActiveReleases : n.id > r.id }) < 10 }

\* the most recently created release of NewestActive that is compatible with
\* the app version and includes the device, NoRel when there is none
MostRecentQualifying(deviceId, appVersion) ==
  LET ok == { r \in NewestActive : Qualifies(r, deviceId, appVersion) }
  IN  IF ok = {} THEN NoRel ELSE (CHOOSE r \in ok : \A n \in ok : n.id <= r.id).id

\* request q, on a cache miss, gets the resolver's answer and becomes n
ResolvesTo(q, n) ==
  /\ q.kind = "check" /\ q.pc = "dbLatest"
  /\ CopiesIn(q, req') < CopiesIn(q, req)
  /\ CopiesIn(n, req') > CopiesIn(n, req)

\* C17: on a cache miss the resolver returns the most recently created
\* release, among the 10 newest with an active rollout, that is compatible
\* with the app version and includes the device, and no release only when
\* none of them qualifies.
C17_MostRecentQualifying ==
  [][\A q \in InFlight : \A n \in BagToSet(req') :
       ResolvesTo(q, n)
         => n.cachedRelease.releaseId = MostRecentQualifying(q.deviceId, q.appVersion)]_vars

\* C18: when every release is published with an initial rollout of p = 50, no
\* device whose bucket is at or above p is ever answered updateAvailable: true,
\* from the start of a publish onward, the time between the create-release
\* request and the set-rollout request included.
C18_InitialRolloutHolds ==
  [][\A n \in BagToSet(req') :
       Answers(n) => Mod100(simpleHash(n.deviceId)) < RolloutOption]_vars

\* the answers a check-update request can get when it runs from here to its
\* response with no other request in between (updates.ts 60-129)
NextAnswers(platform, deviceId, appVersion, currentVersion) ==
  LET candidates ==
        IF cache[platform] # NoCached THEN { cache[platform] }
        ELSE { IF rel = NoRel THEN NoCached ELSE CachedOf(rel) :
                 rel \in getLatestActiveRelease(deviceId, appVersion) }
  IN  { IF c = NoCached THEN NoRel
        ELSE IF ~isAppVersionCompatible(appVersion, c.minAppVersion, c.maxAppVersion)
        THEN NoRel
        ELSE IF ~RolloutIncludes(c.releaseId, deviceId) THEN NoRel
        ELSE IF AlreadyLatest(currentVersion, c.version) THEN NoRel
        ELSE c.releaseId : c \in candidates }

\* request q, which set the rollout of the channel's one active release to
\* 100%, returns in this step; the rollout stands at 100% and no other
\* request that changes releases or rollouts is under way
RaiseReturns(q) ==
  /\ q.kind = "rollout" /\ q.pc = "status" /\ q.percentage = 100
  /\ CopiesIn(q, req') < CopiesIn(q, req)
  /\ { r.id : r \in ActiveReleases } = { q.releaseId }
  /\ \A ro \in RolloutsOf(q.releaseId) : ro.percentage = 100
  /\ \A x \in InFlight : x # q => (x.kind = "check" \/ x.pc = "done")

\* C19: when the request that raised the rollout of the channel's active
\* release to 100% has returned, the next check of a compatible device on an
\* older version is answered with that release: no cached entry suppresses it.
C19_RaiseReachesNextCheck ==
  [][\A q \in InFlight :
       RaiseReturns(q)
         => \A d \in DeviceIds :
              NextAnswers("ios", d, <<2, 0, 0>>, <<1, 0, 0>>)' = { q.releaseId }]_vars

\* download t holds bytes over which the release's signature does not verify,
\* with a public key configured, and leaves verifyBundle in this step
BadSignatureChecked(t) ==
  /\ t.kind = "download" /\ t.pc = "verifyBundle"
  /\ t.signature # "none" /\ t.publicKey
  /\ ~SignatureVerifies(t.data, t.signature)
  /\ Steps(t)

\* C20: with a release signature and a public key present, a bundle whose
\* signature does not verify over its bytes is rejected by verifyBundle: the
\* download ends in error and never goes on to save the bundle, with every
\* native module and without one.
C20_BadSignatureRejected ==
  [][\A t \in Running :
       BadSignatureChecked(t)
         => /\ status' = "error"
            /\ BagCardinality(tasks') < BagCardinality(tasks)]_vars

\* download t holds the bytes the server digested at publish and leaves
\* verifyBundle in this step
UnmodifiedChecked(t) ==
  /\ t.kind = "download" /\ t.pc = "verifyBundle"
  /\ t.data = "published"
  /\ Steps(t)

\* C21: the digest calculateHash computes for the published bytes equals the
\* digest the server stored, with expo-crypto, with the native module and
\* with WebCrypto, so a download of the unmodified bytes passes the hash
\* check and goes on to save the bundle.
C21_UnmodifiedPassesHashCheck ==
  [][\A t \in Running :
       UnmodifiedChecked(t)
         => /\ calculateHash(t.data) = bundleHash
            /\ ~(status' = "error" /\ error' = "Bundle hash mismatch")]_vars

\* download t is past the download step
Downloaded(t) == t.kind = "download" /\ t.pc \notin { "begin", "downloadBundle" }

\* C22: a response whose body begins with an HTML marker, or whose
\* Content-Type is HTML, is rejected by the download step: no download goes
\* on to hash verification, or to staging, with such a response.
C22_HtmlRejectedBeforeVerification ==
  \A t \in Running :
    Downloaded(t) => t.data # HtmlPage /\ t.contentType # "text/html"

\* download t leaves verifyBundle in this step
VerifyReturns(t) == t.kind = "download" /\ t.pc = "verifyBundle" /\ Steps(t)

\* verifyBundle returned valid for t: the download goes on to save the bundle
ReturnsValid(t) ==
  CopiesIn([t EXCEPT !.pc = "saveBundle"], tasks')
    > CopiesIn([t EXCEPT !.pc = "saveBundle"], tasks)

DigestEqual(t) == calculateHash(t.data) = bundleHash
SignatureSkipped(t) == t.signature = "none" \/ ~t.publicKey

MandatoryResolved ==
  mounted /\ status = "available" /\ isMandatory(updateInfo, MandatoryRels)

\* C24: whenever a check has resolved a mandatory release, the provider goes
\* on by itself: unless the process ends or a later check withdraws the
\* update, the download of the release begins without a user's confirmation.
C24_MandatoryDrivesDownload ==
  MandatoryResolved ~> (~mounted \/ status # "available")

\* a check resolves release r in this step
CheckResolves(r) ==
  /\ \E t \in Running : t.kind = "check" /\ t.pc = "checkUpdate" /\ Steps(t)
  /\ status' = "available" /\ updateInfo' = r

\* C25: a dismissal outlives every later check that resolves the version
\* already held in updateInfo, and a check that resolves a release of
\* another version ends it.
C25_DismissedUntilOtherVersion ==
  [][\A r \in ClientRels :
       (isDismissed /\ CheckResolves(r))
         => (isDismissed' <=> (updateInfo = r))]_vars

\* check t receives the answer to its request, or its failure, in this step
CheckSettles(t) == t.kind = "check" /\ t.pc = "checkUpdate" /\ Steps(t)

\* C26: a check never ends in a rejection that leaves the hook as it was: it
\* ends with an update available, with up-to-date, or, when the request
\* failed (transport error or non-2xx answer), resolved to null with status
\* error and a non-null error.
C26_FailedCheckResolvesToError ==
  [][\A t \in Running :
       CheckSettles(t)
         => \/ status' = "available" /\ updateInfo' # NoRel /\ error' = error
            \/ status' = "up-to-date" /\ error' = error
            \/ /\ status' = "error" /\ error' = "check-update failed"
               /\ updateInfo' = updateInfo /\ releaseRef' = releaseRef]_vars

\* a check has failed and nothing else is running
C26_Witness ==
  /\ mounted /\ status = "error" /\ error = "check-update failed"
  /\ \A t \in Running : t.kind # "check"

\* the positions of startup recovery that delete or clear something
ClearingPcs ==
  { "deleteBundle", "clearMetadata", "clearNative", "clearMetadataAgain", "clearNativeAgain" }

\* startup recovery t takes a step
RecoverySteps(t) == t.kind = "init" /\ Steps(t)

\* recovery goes on, in this step, to a position that deletes or clears
TurnsToClearing ==
  \E n \in BagToSet(tasks') : n.kind = "init" /\ n.pc \in ClearingPcs

Bucket(deviceId) == Mod100(simpleHash(deviceId))

\* C28: shouldReceiveUpdate(deviceId, p) is true for every device id when
\* p >= 100, false for every device id when p <= 0, and for 0 < p < 100 true
\* exactly when the device's 32-bit hash reduced modulo 100 is below p.
C28_BucketBelowPercentage ==
  \A q \in InFlight :
    (q.kind = "shouldReceiveUpdate" /\ Returned(q))
      => /\ q.percentage >= 100 => q.result
         /\ q.percentage <= 0 => ~q.result
         /\ (0 < q.percentage /\ q.percentage < 100)
              => (q.result <=> Bucket(q.deviceId) < q.percentage)
         /\ Bucket(q.deviceId) \in 0..99

\* a call returned false for a device whose hash wrapped around 32 bits and
\* whose bucket is exactly the percentage
C28_Witness ==
  \E q \in InFlight :
    /\ q.kind = "shouldReceiveUpdate" /\ Returned(q)
    /\ Len(q.deviceId) > 7
    /\ Bucket(q.deviceId) = q.percentage
    /\ ~q.result

\* version b is version a followed by zero components only
TrailingZeros(a, b) ==
  /\ Len(a) < Len(b)
  /\ \A i \in 1..Len(b) : b[i] = IF i <= Len(a) THEN a[i] ELSE 0

\* C29: compareVersions orders all version strings consistently:
\* compare(a, a) = 0, compare(a, b) = -compare(b, a), the order is
\* transitive, and versions that differ only by trailing zero components
\* compare equal.
C29_ConsistentOrdering ==
  \A q \in InFlight :
    (q.kind = "compareVersions" /\ Returned(q))
      => /\ q.aa = 0
         /\ q.ab \in { -1, 0, 1 }
         /\ q.ab = 0 - q.ba
         /\ (q.ab >= 0 /\ q.bc >= 0) => q.ac >= 0
         /\ (q.ab <= 0 /\ q.bc <= 0) => q.ac <= 0
         /\ (q.ab > 0 /\ q.bc >= 0) => q.ac > 0
         /\ (q.ab >= 0 /\ q.bc > 0) => q.ac > 0
         /\ TrailingZeros(q.a, q.b) => q.ab = 0

\* "1" and "1.0" compared equal, and both below a third version
C29_Witness ==
  \E q \in InFlight :
    /\ q.kind = "compareVersions" /\ Returned(q)
    /\ TrailingZeros(q.a, q.b)
    /\ q.ab = 0 /\ q.bc < 0 /\ q.ac < 0

\* applyUpdate t, holding the metadata it read, enters applying in this step
EntersApplying(t) == t.kind = "apply" /\ t.pc = "begin" /\ Steps(t)

\* C30: applyUpdate enters applying, and goes on to commit the pointer, only
\* from status ready; it applies nothing while a check, a download or a
\* verification is in flight.
C30_AppliesOnlyFromReady ==
  [][\A t \in Running :
       EntersApplying(t)
         => /\ status = "ready"
            /\ \A o \in Running : o.kind \notin { "check", "download" }]_vars

\* ---- rollback

\* rollbackToRelease activates the target with nobody else in flight and with
\* the channel as its own first statement left it: the target's rollout is then
\* the only active one, at 100 percent
RollbackAloneActivates ==
  [][\A q \in InFlight :
       (/\ RollbackActivate(q)
        /\ req = SetToBag({q})
        /\ ActiveRollouts = {})
       => (/\ Cardinality(ActiveRollouts') = 1
           /\ \A ro \in ActiveRollouts' :
                ro.release_id = q.releaseId /\ ro.percentage = 100)]_vars

\* C31: a rollback that ran alone leaves the target's rollout the only active
\* one at 100 percent, and once a rollback and a publish that interleaved have
\* both completed the channel has exactly one active rollout.
C31_OneActiveAfterRollback ==
  (req = EmptyBag /\ releases # {}) => Cardinality(ActiveRollouts) = 1

\* ---- versions of a channel

\* C33: no two releases of the channel ever share a version, also when two
\* publishes of the same version run concurrently (a publish of an existing
\* version answers 409 and changes nothing).
C33_VersionsUnique ==
  \A r \in releases, n \in releases : r.version = n.version => r.id = n.id

\* ---- delete

\* C32: a delete never leaves a channel that had an active rollout without
\* one: the release holding the only active rollout is not deleted (the request
\* answers 400 and changes nothing).
C32_DeleteKeepsAnActiveRollout ==
  [][\A q \in InFlight :
       (DeleteRow(q) /\ ActiveRollouts # {}) => ActiveRollouts' # {}]_vars

\* ---- the bootstrap

\* C34: whatever the pointer and the file, getJSBundleFile returns null or the
\* stored path of a file that exists, is readable, is at least 100 bytes long
\* and does not start with an HTML marker.
C34_BootstrapLoadsOnlyPlausibleBundle ==
  [][\A q \in InFlight :
       Bootstrap(q) =>
         LET n == getJSBundleFile(q)
         IN  \/ n.result = NullPath
             \/ /\ n.result = q.BundlePath
                /\ q.file.exists /\ q.file.canRead
                /\ q.file.length >= MinBundleBytes
                /\ q.file.head.starts \notin HtmlMarkers]_vars

\* C35: once the app has been upgraded to another version code, the next
\* bootstrap clears a pointer that applyBundle wrote and loads the built-in
\* bundle.
C35_UpgradeClearsPointer ==
  [][\A q \in InFlight :
       (/\ Bootstrap(q)
        /\ q.BundlePath # NullPath /\ q.writer = "applyBundle"
        /\ q.writtenAt # q.versionCode)
       => LET n == getJSBundleFile(q)
          IN  n.result = NullPath /\ n.BundlePath = NullPath]_vars

\* ---- foreground

\* C36: with checkOnForeground on, a foreground-resume event that arrives
\* while no operation is in flight starts a new check, whatever the status an
\* earlier check has left (up-to-date, available or error).
C36_ForegroundStartsCheck ==
  (mounted /\ tasks = EmptyBag) => ENABLED ForegroundResume

\* ---- the pointer and the metadata

\* C37: whenever no operation of the agent is in progress and the stored
\* metadata exists, the native pointer is set and is the metadata's bundle
\* path (as normalised for the native side); status ready in particular means
\* the pointer names the bundle just staged.
C37_PointerFollowsMetadata ==
  (mounted /\ tasks = EmptyBag /\ MetadataSet)
    => (PointerSet /\ pointer = normalizePath(metadata.bundlePath))

\* ---- the cache

\* the answers request q would get from the store as it is, had it missed
\* the cache (updates.ts 63-109)
MissAnswers(q) ==
  { IF rel = NoRel THEN NoRel
    ELSE IF ~isAppVersionCompatible(q.appVersion, CachedOf(rel).minAppVersion,
                                    CachedOf(rel).maxAppVersion) THEN NoRel
    ELSE IF ~RolloutIncludes(rel, q.deviceId) THEN NoRel
    ELSE IF AlreadyLatest(q.currentVersion, CachedOf(rel).version) THEN NoRel
    ELSE rel : rel \in getLatestActiveRelease(q.deviceId, q.appVersion) }

\* the step answers check n, which hit the cache
HitAnswers(n) ==
  /\ n.kind = "check" /\ n.pc = "done" /\ n.fromCache
  /\ CopiesIn(n, req') > CopiesIn(n, req)

\* C38: check-update answers on a cache hit what it would answer on a miss
\* against the same store: the cached candidate, chosen for the device that
\* filled the entry, never changes what another device is offered.  Stated for
\* the hits least open to doubt: no mutation is under way, and the entry is
\* still in the cache and names a release whose rollout is active.
C38_HitAnswersAsMiss ==
  [][\A n \in BagToSet(req') :
       (/\ HitAnswers(n)
        /\ ~MutationInFlight
        /\ cache[n.platform] = n.cachedRelease
        /\ CacheEntryLive(n.platform))
       => n.resp \in MissAnswers(n)]_vars

\* ---- what downloadUpdate downloads

\* downloadUpdate passes its guard: a download begins in this step
DownloadStarts ==
  \E n \in BagToSet(tasks') :
    /\ n.kind = "download" /\ n.pc = "begin"
    /\ CopiesIn(n, tasks') > CopiesIn(n, tasks)

\* the check that completed last resolved no update, or failed, and nothing
\* has touched the status since
LastCheckGaveNoUpdate ==
  \/ status = "up-to-date"
  \/ status = "error" /\ error = "check-update failed"

\* C39: downloadUpdate downloads only the release the most recent completed
\* check returned; when that check resolved no update or failed it rejects
\* with 'No update available to download' and starts no download.
C39_DownloadsOnlyLatestCheckResult ==
  [][LastCheckGaveNoUpdate => ~DownloadStarts]_vars

\* ---- rollout inclusion

\* C40: rollout inclusion is monotone in the percentage: for every device id
\* and all percentages p <= q, shouldReceiveUpdate(deviceId, p) implies
\* shouldReceiveUpdate(deviceId, q).
C40_InclusionMonotone ==
  \A c \in InFlight :
    (c.kind = "shouldReceiveUpdateTwice" /\ Returned(c) /\ c.p <= c.q)
      => (c.atP => c.atQ)

\* a device with a wrapped hash, included by its bucket at p, was asked again
\* at a larger percentage below 100 and is included there too
C40_Witness ==
  \E c \in InFlight :
    /\ c.kind = "shouldReceiveUpdateTwice" /\ Returned(c)
    /\ Len(c.deviceId) > 7
    /\ 0 < c.p /\ c.p < c.q /\ c.q < 100
    /\ Bucket(c.deviceId) < c.p
    /\ c.atP /\ c.atQ

====
